---- MODULE Spec2Model ----
(***************************************************************************)
(* Model of the price-estimation feature engine of                         *)
(* Price_house_ponta_grossa: the area bucket (features.add_faixa_area and  *)
(* the fallback of predict.predict), the feature row predict hands to the  *)
(* pipeline, the dataset assembler (features.prepare_dataset), the         *)
(* proximity query (app2.calcular_poi_features) and the score formulas     *)
(* (features.add_poi_scores, app2.calcular_scores).                        *)
(*                                                                         *)
(* Numbers.  Python floats are modelled by integers:                       *)
(*   - areas in m2, distances in metres, counts and room counts as such;   *)
(*   - the result of np.exp / np.log in thousandths (SCALE);               *)
(*   - a score in units of 1/(10*SCALE), its weights in tenths;            *)
(*   - the missing value np.nan of a numeric column is the marker NaN,     *)
(*     that of a text or categorical column the marker NaNLabel (TLC       *)
(*     cannot compare an integer with a string);                           *)
(*   - float("inf") is the marker Inf, larger than every modelled number.  *)
(***************************************************************************)
EXTENDS Integers, Sequences, FiniteSets, TLC

VARIABLES
    arg,        \* predict: the dict the caller passes (as it was at the call)
    data,       \* predict: the caller's dict after the call (predict mutates it)
    df_input,   \* predict: the one-row frame handed to pipeline.predict
    result,     \* predict: what the call gave (status none / ok / TypeError)
    df,         \* the raw listing table (rows of complete.csv)
    faixa_df,   \* add_faixa_area(df) once it ran
    tipos_validos,  \* prepare_dataset's argument tipos_validos
    out,        \* prepare_dataset's return value once it ran
    pois,       \* app2: the POI tables carregar_pois returned, by key
    imovel,     \* app2: the target location (lat, lon)
    poi_features,   \* app2: what calcular_poi_features gave
    scores,     \* app2: what calcular_scores gave
    scored,     \* add_poi_scores on the row of the same distances and counts
    tipo_imovel,        \* classificar_tipo_imovel: the text it is called on
    tipo_imovel_cat,    \* classificar_tipo_imovel: what it returned
    model,      \* api/main.py: the global _model (unset / loaded / None)
    request,    \* the JSON body of the last POST /predict
    response,   \* the answer of the last POST /predict
    form,       \* the values of the Streamlit form at the submit
    geo,        \* app2: what geocode_endereco returned
    trace,      \* the calls the submit handler made, in order
    saved,      \* the records handed to salvar_predicao, in order
    disk,       \* app2: the POI csv files as they are on disk
    cache,      \* app2: what st.cache_data holds for carregar_pois
    loader,     \* app2: the call of carregar_pois that is running
    sessions,   \* app2: the script runs that query the POIs, per session
    health,     \* the answer of the last GET /health
    served,     \* the endpoints that handled a request, in order
    load_args,  \* load_model: its arguments and the MLflow store it reads
    loaded,     \* load_model: what it returned or raised
    site,       \* scraper: the listings each page of the site shows
    scraper,    \* scraper: the locals and fields of scraping_completo
    drivers,    \* scraper: the browsers that are open
    merged      \* unir_arquivos: the tables the two functions returned

predVars == <<arg, data, df_input, result>>
trainVars == <<df, faixa_df, tipos_validos, out>>
poiVars == <<pois, imovel, poi_features, scores, scored>>
classVars == <<tipo_imovel, tipo_imovel_cat>>
appVars == <<model, request, response, form, geo, trace, saved>>
reloadVars == <<disk, cache, loader, sessions>>
lifeVars == <<health, served>>
loadVars == <<load_args, loaded>>
scraperVars == <<site, scraper, drivers, merged>>
restVars == <<reloadVars, lifeVars, loadVars, scraperVars>>
notReload == <<lifeVars, loadVars, scraperVars>>
notLife == <<reloadVars, loadVars, scraperVars>>
notLoad == <<reloadVars, lifeVars, scraperVars>>
notScraper == <<reloadVars, lifeVars, loadVars>>
vars == <<arg, data, df_input, result, df, faixa_df, tipos_validos, out,
          pois, imovel, poi_features, scores, scored,
          tipo_imovel, tipo_imovel_cat, model, request, response, form, geo, trace, saved,
          disk, cache, loader, sessions, health, served, load_args, loaded,
          site, scraper, drivers, merged>>

(***************************************************************************)
(* Bounds of the model                                                     *)
(***************************************************************************)
MaxArea == 402      \* areas -1 .. MaxArea are enumerated in SpecArea
MaxAbsent == 2      \* at most this many feature keys are left out of a dict

(***************************************************************************)
(* Markers                                                                 *)
(***************************************************************************)
NaN == -999999          \* np.nan in a numeric column
None == -999998         \* Python None where a number is expected
Inf == 999999           \* float("inf")
NaNLabel == "nan"       \* np.nan in a text / categorical column
NoFrame == [columns |-> <<>>, row |-> <<>>]      \* no frame was built
NotRun == [ran |-> FALSE, table |-> <<>>]        \* the function was not called
NoResult == [status |-> "none"]                  \* predict was not called
NoPois == <<>>                                   \* carregar_pois did not run
\* calcular_poi_features did not run
NoFeatures == [status |-> "none", val |-> <<>>, queried |-> <<>>]
NoScores == [status |-> "none", val |-> <<>>]    \* calcular_scores did not run
NoTipo == << "<none>" >>                         \* no text was given
NoCat == "<none>"                                \* classificar_tipo_imovel did not run
NoRequest == [keys |-> <<>>, val |-> <<>>]       \* nothing was posted
NoResponse == [status |-> 0]                     \* no answer yet
NoForm == [app |-> "none", n |-> 0]              \* nothing was submitted
NoneText == "<None>"                             \* Python None where a text is expected
NoGeo == [lat |-> None, lon |-> None, status |-> "none"]  \* geocode_endereco did not run
NoArgs == [model_path |-> "<None>", run_id |-> "<None>"]   \* load_model was not called
NoHealth == [status |-> "none"]                   \* /health was not asked
NoLoader == [state |-> "idle", read |-> <<>>]    \* carregar_pois is not running

(***************************************************************************)
(* Fixed-point exp and log                                                 *)
(***************************************************************************)
SCALE == 1000
LN2 == 693              \* ln 2, in 1/SCALE

RECURSIVE Pow2(_)
Pow2(k) == IF k <= 0 THEN 1 ELSE 2 * Pow2(k - 1)

RECURSIVE Log2Floor(_)
Log2Floor(x) == IF x < 2 THEN 0 ELSE 1 + Log2Floor(x \div 2)

\* np.exp(x), x and the result in 1/SCALE.  2^(x/ln2): the integer part of
\* the exponent shifts, the fractional part is interpolated linearly
\* between two powers of two.  nan gives nan; a result below 1/SCALE
\* underflows to 0 as a float result below the smallest subnormal does.
NpExp(x) ==
    IF x = NaN THEN NaN
    ELSE LET k == x \div LN2
             f == x % LN2
             mant == SCALE + (f * SCALE) \div LN2
         IN  IF k >= 0 THEN mant * Pow2(k)
             ELSE IF k < -11 THEN 0     \* mant < 2^11
             ELSE mant \div Pow2(-k)

\* np.log(x) of a plain number x, the result in 1/SCALE.
NpLog(x) ==
    IF x = NaN THEN NaN
    ELSE IF x < 0 THEN NaN
    ELSE IF x = 0 THEN -Inf
    ELSE LET k == Log2Floor(x)
         IN  LN2 * k + ((x - Pow2(k)) * LN2) \div Pow2(k)

\* a float comparison a <= b: False as soon as one side is nan
Le(a, b) == a # NaN /\ b # NaN /\ a <= b
Lt(a, b) == a # NaN /\ b # NaN /\ a < b

(***************************************************************************)
(* features.py: feature lists and the area bins                            *)
(***************************************************************************)
NUM_FEATURES == <<"quartos", "banheiros", "vagas_garagem", "area_m2",
                  "score_escola_privada", "score_escola_publica",
                  "score_hospitais", "score_mercado", "score_farmacia",
                  "score_parque", "score_seguranca">>

CAT_FEATURES == <<"bairro", "faixa_area">>

TARGET == "log_preco"

\* The labels are written in ASCII: "Ate 50" is the source's "At\'e 50" and
\* the hyphen of "50-80" the source's en dash; features.py and predict.py
\* spell the six labels with the same characters.
AREA_BINS == <<0, 50, 80, 120, 200, 400, Inf>>
AREA_LABELS == <<"Ate 50", "50-80", "80-120", "120-200", "200-400", "400+">>

Range(s) == {s[i] : i \in DOMAIN s}

\* the missing-value marker of a column
NaNOf(col) == IF col \in {"bairro", "faixa_area", "tipo_imovel", "tipo_imovel_cat"}
              THEN NaNLabel ELSE NaN

\* pd.cut with right=False: bin i is [bins[i], bins[i+1])
PdCutLeftClosed(x, bins, labels) ==
    LET hit == {i \in 1..Len(labels) : Le(bins[i], x) /\ Lt(x, bins[i + 1])}
    IN  IF hit = {} THEN NaNLabel ELSE labels[CHOOSE i \in hit : TRUE]

\* pd.cut(x, bins, labels) with pandas' defaults right=True,
\* include_lowest=False: bin i is the interval (bins[i], bins[i+1]];
\* a value in no bin, or nan, gets nan.
PdCut(x, bins, labels) ==
    LET hit == {i \in 1..Len(labels) : Lt(bins[i], x) /\ Le(x, bins[i + 1])}
    IN  IF hit = {} THEN NaNLabel ELSE labels[CHOOSE i \in hit : TRUE]

\* the row with the column col set to v
WithColumn(row, col, v) == (col :> v) @@ row

CutArea(row) == PdCut(row["area_m2"], AREA_BINS, AREA_LABELS)

add_faixa_area(frame) ==
    [i \in DOMAIN frame |-> WithColumn(frame[i], "faixa_area", CutArea(frame[i]))]

(***************************************************************************)
(* features.py: add_poi_scores                                             *)
(***************************************************************************)
\* float arithmetic: nan in, nan out
FAdd(a, b) == IF a = NaN \/ b = NaN THEN NaN ELSE a + b
FSub(a, b) == IF a = NaN \/ b = NaN THEN NaN ELSE a - b
FMul(a, b) == IF a = NaN \/ b = NaN THEN NaN ELSE a * b
\* -d / len for a distance d in metres, the quotient in 1/SCALE
NegOver(d, len) == IF d = NaN THEN NaN ELSE ((0 - d) * SCALE) \div len

\* the score with the count taken off: w * np.exp(-dist / len) - c * qtd
ScoreFormulaLessCount(w, dist, len, c, qtd) ==
    FSub(FMul(w, NpExp(NegOver(dist, len))), FMul(FMul(c, qtd), SCALE))

\* w * np.exp(-dist / len) + c * qtd, with w and c in tenths: the score in
\* units of 1/(10 * SCALE)
ScoreFormula(w, dist, len, c, qtd) ==
    FAdd(FMul(w, NpExp(NegOver(dist, len))), FMul(FMul(c, qtd), SCALE))

\* the seven assignments of add_poi_scores, in order: the column written,
\* the weight of the exponential (tenths), the distance column, the decay
\* length (m), the weight of the count (tenths) and the count column
TRAIN_SCORES == <<
    [score |-> "score_escola_privada", w |-> 12,
     dist |-> "dist_escolas_privadas_mais_proximo", len |-> 600,
     c |-> 6, qtd |-> "qtd_escolas_privadas_500m"],
    [score |-> "score_escola_publica", w |-> 6,
     dist |-> "dist_escola_publicas_mais_proximo", len |-> 600,
     c |-> 2, qtd |-> "qtd_escola_publicas_500m"],
    [score |-> "score_hospitais", w |-> 8,
     dist |-> "dist_hospital_mais_proximo", len |-> 1200,
     c |-> 4, qtd |-> "qtd_hospital_1000m"],
    [score |-> "score_mercado", w |-> 10,
     dist |-> "dist_mercado_mais_proximo", len |-> 400,
     c |-> 4, qtd |-> "qtd_mercado_500m"],
    [score |-> "score_farmacia", w |-> 6,
     dist |-> "dist_farmacia_mais_proximo", len |-> 300,
     c |-> 2, qtd |-> "qtd_farmacia_300m"],
    [score |-> "score_parque", w |-> 12,
     dist |-> "dist_parque_mais_proximo", len |-> 1200,
     c |-> 8, qtd |-> "qtd_parque_1000m"],
    [score |-> "score_seguranca", w |-> 10,
     dist |-> "dist_policia_mais_proximo", len |-> 1500,
     c |-> 3, qtd |-> "qtd_policia_500m"] >>

\* the row after the first n assignments of the table
RECURSIVE ApplyScores(_, _, _)
ApplyScores(row, table, n) ==
    IF n = 0 THEN row
    ELSE LET r == ApplyScores(row, table, n - 1)
             e == table[n]
         IN  WithColumn(r, e.score,
                        ScoreFormula(e.w, r[e.dist], e.len, e.c, r[e.qtd]))

\* score_educacao = score_escola_privada - 0.2 * score_escola_publica
ScoreEducacao(row) ==
    LET pub == row["score_escola_publica"]
    IN  FSub(row["score_escola_privada"],
             IF pub = NaN THEN NaN ELSE (2 * pub) \div 10)

add_poi_scores_row(row) ==
    LET r == ApplyScores(row, TRAIN_SCORES, Len(TRAIN_SCORES))
    IN  WithColumn(r, "score_educacao", ScoreEducacao(r))

add_poi_scores(frame) == [i \in DOMAIN frame |-> add_poi_scores_row(frame[i])]

(***************************************************************************)
(* features.py: classificar_tipo_imovel                                    *)
(***************************************************************************)
\* A text is a sequence of characters; an accented letter is one character
\* written with its accent after it ("a~", "o'", "e'", "i'").
NaNText == << "<nan>" >>        \* the missing value of the text column

UPPER == <<"A", "B", "C", "D", "E", "F", "G", "H", "I", "J", "K", "L", "M",
           "N", "O", "P", "Q", "R", "S", "T", "U", "V", "W", "X", "Y", "Z",
           "A~", "O'", "E'", "I'">>
LOWER == <<"a", "b", "c", "d", "e", "f", "g", "h", "i", "j", "k", "l", "m",
           "n", "o", "p", "q", "r", "s", "t", "u", "v", "w", "x", "y", "z",
           "a~", "o'", "e'", "i'">>

\* str.lower()
LowerChar(ch) ==
    IF \E i \in DOMAIN UPPER : UPPER[i] = ch
    THEN LOWER[CHOOSE i \in DOMAIN UPPER : UPPER[i] = ch]
    ELSE ch
Lower(text) == [i \in DOMAIN text |-> LowerChar(text[i])]

\* word in text
Contains(text, word) ==
    \E k \in 0 .. (Len(text) - Len(word)) :
        \A i \in 1 .. Len(word) : text[k + i] = word[i]

\* any(x in tipo for x in words)
ContainsAny(text, words) == \E w \in words : Contains(text, w)

KW_TERRENO == { <<"t","e","r","r","e","n","o">>, <<"l","o","t","e">> }
KW_APARTAMENTO == { <<"a","p","a","r","t","a","m","e","n","t","o">>,
                    <<"c","o","b","e","r","t","u","r","a">>,
                    <<"d","u","p","l","e","x">>, <<"f","l","a","t">>,
                    <<"k","i","t","n","e","t">> }
KW_CASA == { <<"c","a","s","a">>, <<"s","o","b","r","a","d","o">>,
             <<"v","i","l","a">> }
KW_COMERCIAL == { <<"c","o","m","e","r","c","i","a","l">>, <<"l","o","j","a">>,
                  <<"b","o","x">>, <<"g","a","l","p","a~","o">>,
                  <<"d","e","p","o","s","i","t","o">>,
                  <<"d","e","p","o'","s","i","t","o">>,
                  <<"s","a","l","a">>, <<"c","o","n","j","u","n","t","o">> }
KW_PREDIO == { <<"p","r","e'","d","i","o">>, <<"e","d","i","f","i","c","i","o">>,
               <<"e","d","i","f","i'","c","i","o">> }

\* classificar_tipo_imovel with the house family tested before the
\* apartment family
classificar_CasaFirst(tipo) ==
    IF tipo = NaNText THEN "outros"
    ELSE LET t == Lower(tipo)
         IN  IF ContainsAny(t, KW_TERRENO) THEN "terreno"
             ELSE IF ContainsAny(t, KW_CASA) THEN "casa"
             ELSE IF ContainsAny(t, KW_APARTAMENTO) THEN "apartamento"
             ELSE IF ContainsAny(t, KW_COMERCIAL) THEN "comercial"
             ELSE IF ContainsAny(t, KW_PREDIO) THEN "predio"
             ELSE "outros"

classificar_tipo_imovel(tipo) ==
    IF tipo = NaNText THEN "outros"
    ELSE LET t == Lower(tipo)
         IN  IF ContainsAny(t, KW_TERRENO) THEN "terreno"
             ELSE IF ContainsAny(t, KW_APARTAMENTO) THEN "apartamento"
             ELSE IF ContainsAny(t, KW_CASA) THEN "casa"
             ELSE IF ContainsAny(t, KW_COMERCIAL) THEN "comercial"
             ELSE IF ContainsAny(t, KW_PREDIO) THEN "predio"
             ELSE "outros"

(***************************************************************************)
(* features.py: prepare_dataset                                            *)
(***************************************************************************)
\* tipos_validos when the caller gives None
TIPOS_DEFAULT == {"casa", "apartamento", "comercial"}
NoTipos == {"<None>"}           \* tipos_validos=None
TiposValidos(tipos) == IF tipos = NoTipos THEN TIPOS_DEFAULT ELSE tipos

\* the columns select_dtypes(include=["float64", "int64"]) keeps: every
\* column of the frame but the text and categorical ones and the index
TextColumns == {"tipo_imovel", "bairro", "tipo_imovel_cat", "faixa_area", "index"}
NumericColumns(frame) ==
    IF Len(frame) = 0 THEN {} ELSE DOMAIN frame[1] \ TextColumns

\* df.drop(columns=["Unnamed: 0"]) when the column exists
DropUnnamed(frame) ==
    [i \in DOMAIN frame |->
        [c \in DOMAIN frame[i] \ {"Unnamed: 0"} |-> frame[i][c]]]

\* the rows of the frame whose value in the column is not nan
Present(frame, col) == {i \in DOMAIN frame : frame[i][col] # NaN}

\* the k-th smallest (k = 1 ..) of the present values of the column
Kth(frame, col, k) ==
    LET P == Present(frame, col)
    IN  CHOOSE v \in {frame[i][col] : i \in P} :
            /\ Cardinality({i \in P : frame[i][col] < v}) < k
            /\ Cardinality({i \in P : frame[i][col] <= v}) >= k

\* Series.median(): nan values skipped; the middle value, or the mean of
\* the two middle values; nan when no value is present
Median(frame, col) ==
    LET n == Cardinality(Present(frame, col))
    IN  IF n = 0 THEN NaN
        ELSE IF n % 2 = 1 THEN Kth(frame, col, (n + 1) \div 2)
        ELSE (Kth(frame, col, n \div 2) + Kth(frame, col, n \div 2 + 1)) \div 2

\* x.fillna(x.median()) on every numeric column
FillNumeric(frame) ==
    [i \in DOMAIN frame |->
        [c \in DOMAIN frame[i] |->
            IF c \in NumericColumns(frame) /\ frame[i][c] = NaN
            THEN Median(frame, c) ELSE frame[i][c]]]

\* the price taken as it is, without clip
ClipNone(x, lo) == x

\* df["preco"].clip(lower=1)
ClipLower(x, lo) == IF x = NaN THEN NaN ELSE IF x < lo THEN lo ELSE x

\* the steps of prepare_dataset on the table read from the csv
Scored(csv) == add_poi_scores(DropUnnamed(csv))
Classified(csv) ==
    LET f == Scored(csv)
    IN  [i \in DOMAIN f |->
            WithColumn(f[i], "tipo_imovel_cat",
                       classificar_tipo_imovel(f[i]["tipo_imovel"]))]
\* the filter left out: every classified row is kept
FilteredAll(csv, tipos) == Classified(csv)
\* df[df["tipo_imovel_cat"].isin(tipos_validos)]: the rows kept, in order,
\* each with its index label
Filtered(csv, tipos) ==
    SelectSeq(Classified(csv),
              LAMBDA row : row["tipo_imovel_cat"] \in TiposValidos(tipos))
Bucketed(csv, tipos) == add_faixa_area(Filtered(csv, tipos))
\* the target with the listings without a price dropped first
WithTargetDropna(csv, tipos) ==
    LET f == SelectSeq(Bucketed(csv, tipos), LAMBDA row : row["preco"] # NaN)
    IN  [i \in DOMAIN f |->
            WithColumn(f[i], "log_preco", NpLog(ClipLower(f[i]["preco"], 1)))]
WithTarget(csv, tipos) ==
    LET f == Bucketed(csv, tipos)
    IN  [i \in DOMAIN f |->
            WithColumn(f[i], "log_preco", NpLog(ClipLower(f[i]["preco"], 1)))]
\* the steps in another order: the medians are taken and filled on all the
\* classified rows, and the allow-list filter comes last
prepare_FillBeforeFilter(csv, tipos) ==
    SelectSeq(FillNumeric(WithTarget(csv, {"terreno", "apartamento", "casa",
                                           "comercial", "predio", "outros"})),
              LAMBDA row : row["tipo_imovel_cat"] \in TiposValidos(tipos))
prepare_dataset(csv, tipos) == FillNumeric(WithTarget(csv, tipos))

(***************************************************************************)
(* predict.py: predict                                                     *)
(***************************************************************************)
\* A Python dict: its keys in insertion order and its values.
Dict(keys, val) == [keys |-> keys, val |-> [k \in Range(keys) |-> val[k]]]
HasKey(d, k) == k \in Range(d.keys)
DictGet(d, k, default) == IF HasKey(d, k) THEN d.val[k] ELSE default
DictSet(d, k, v) ==
    [keys |-> IF HasKey(d, k) THEN d.keys ELSE Append(d.keys, k),
     val |-> (k :> v) @@ d.val]

\* the if / elif chain of predict on the area it read
FaixaOf(area) ==
    IF Le(area, 50) THEN "Ate 50"
    ELSE IF Le(area, 80) THEN "50-80"
    ELSE IF Le(area, 120) THEN "80-120"
    ELSE IF Le(area, 200) THEN "120-200"
    ELSE IF Le(area, 400) THEN "200-400"
    ELSE "400+"

\* "faixa_area" not in data or pd.isna(data.get("faixa_area"))
NeedsFaixa(d) == ~HasKey(d, "faixa_area") \/ d.val["faixa_area"] = NaNLabel

\* the area the fallback reads: data.get("area_m2", 0)
AreaRead(d) == DictGet(d, "area_m2", 0)

\* comparing None with a number raises TypeError
FaixaRaises(d) == NeedsFaixa(d) /\ AreaRead(d) = None

\* for col in features: if col not in df_input.columns: df_input[col] = np.nan
RECURSIVE FillMissing(_, _, _)
FillMissing(frame, features, i) ==
    IF i > Len(features) THEN frame
    ELSE LET col == features[i]
             next == IF col \in Range(frame.columns) THEN frame
                     ELSE [columns |-> Append(frame.columns, col),
                           row |-> (col :> NaNOf(col)) @@ frame.row]
         IN  FillMissing(next, features, i + 1)

\* the faixa_area block without its test: the label is always derived
EnsureFaixaAlways(d) == DictSet(d, "faixa_area", FaixaOf(AreaRead(d)))

\* the caller's dict, were the missing features filled in the dict and not
\* in the frame
EnsureFaixaAndFeatures(d) ==
    LET e == IF NeedsFaixa(d) THEN DictSet(d, "faixa_area", FaixaOf(AreaRead(d)))
             ELSE d
        filled == FillMissing([columns |-> e.keys, row |-> e.val],
                              NUM_FEATURES \o CAT_FEATURES, 1)
    IN  [keys |-> filled.columns, val |-> filled.row]

\* the caller's dict after the faixa_area block
EnsureFaixa(d) ==
    IF NeedsFaixa(d) THEN DictSet(d, "faixa_area", FaixaOf(AreaRead(d))) ELSE d

\* pd.DataFrame([data]): one row, the columns are the keys in order
FrameOfDict(d) == [columns |-> d.keys, row |-> d.val]

\* the selection left out: the frame as it is
SelectNothing(frame, features) == frame

\* df_input[features]
SelectColumns(frame, features) ==
    [columns |-> features, row |-> [c \in Range(features) |-> frame.row[c]]]

\* the frame predict hands to pipeline.predict
FeatureFrame(d) ==
    LET features == NUM_FEATURES \o CAT_FEATURES
    IN  SelectColumns(FillMissing(FrameOfDict(EnsureFaixa(d)), features, 1), features)

\* round(preco, 2) of a value in 1/SCALE: to the nearest cent, ties to even
Round2(p) ==
    LET q == p \div 10
        r == p % 10
    IN  IF r > 5 \/ (r = 5 /\ q % 2 = 1) THEN (q + 1) * 10 ELSE q * 10

\* the dict predict returns when the pipeline answers log_preco
PredictOutput(log_preco) ==
    [status |-> "ok", log_preco |-> log_preco,
     preco_estimado |-> Round2(NpExp(log_preco))]

\* what the regression pipeline (an external collaborator) may answer
LogPrecoOut == {11513, 12612}

\* the proximity engine before anything of it ran
PoiIdle ==
    /\ pois = NoPois
    /\ imovel = [lat |-> 0, lon |-> 0]
    /\ poi_features = NoFeatures
    /\ scores = NoScores
    /\ scored = NotRun

\* the classifier, the API and the Streamlit apps before anything of them ran
ClassIdle ==
    /\ tipo_imovel = NoTipo
    /\ tipo_imovel_cat = NoCat
ApiIdle ==
    /\ model = "unset"
    /\ request = NoRequest
    /\ response = NoResponse
    /\ form = NoForm
    /\ geo = NoGeo
    /\ trace = <<>>
    /\ saved = <<>>
AppIdle == ClassIdle /\ ApiIdle

\* the POI cache and its sessions before anything of them ran
ReloadIdle ==
    /\ disk = NoPois
    /\ cache = NoPois
    /\ loader = NoLoader
    /\ sessions = <<>>
\* the API before it served anything
LifeIdle ==
    /\ health = NoHealth
    /\ served = <<>>
\* load_model before it was called
LoadIdle ==
    /\ load_args = NoArgs
    /\ loaded = NoResult
\* the scraper before it was called
ScraperIdle ==
    /\ site = <<>>
    /\ scraper = [pc |-> "idle"]
    /\ drivers = 0
    /\ merged = [cidade |-> NotRun, todos |-> NotRun]
RestIdle == ReloadIdle /\ LifeIdle /\ LoadIdle /\ ScraperIdle

\* predict and prepare_dataset before anything of them ran
PredIdle ==
    /\ arg = [keys |-> <<>>, val |-> <<>>]
    /\ data = arg
    /\ df_input = NoFrame
    /\ result = NoResult
TrainIdle ==
    /\ df = <<>>
    /\ faixa_df = NotRun
    /\ tipos_validos = NoTipos
    /\ out = NotRun

\* predict(pipeline, data) on the dict d
PredictCall(d) ==
    IF FaixaRaises(d)
    THEN /\ result' = [status |-> "TypeError"]
         /\ data' = d
         /\ df_input' = NoFrame
    ELSE /\ data' = EnsureFaixa(d)
         /\ df_input' = FeatureFrame(d)
         /\ \E lp \in LogPrecoOut : result' = PredictOutput(lp)

\* predict(pipeline, data): the call on the dict arg
Predict ==
    /\ result = NoResult
    /\ PredictCall(arg)
    /\ UNCHANGED <<arg, df, faixa_df, tipos_validos, out>>
    /\ UNCHANGED <<poiVars, classVars, restVars, appVars>>

\* add_faixa_area(df)
AddFaixaArea ==
    /\ ~faixa_df.ran
    /\ faixa_df' = [ran |-> TRUE, table |-> add_faixa_area(df)]
    /\ UNCHANGED <<arg, data, df_input, result, df, tipos_validos, out>>
    /\ UNCHANGED <<poiVars, classVars, restVars, appVars>>

(***************************************************************************)
(* SpecArea: one area, bucketed by add_faixa_area and by predict           *)
(***************************************************************************)
\* the example dict of predict's docstring
ExampleKeys == <<"quartos", "banheiros", "vagas_garagem", "area_m2", "bairro",
                 "score_escola_privada", "score_escola_publica",
                 "score_hospitais", "score_mercado", "score_farmacia",
                 "score_parque", "score_seguranca", "faixa_area">>
ExampleVal ==
    [quartos |-> 3, banheiros |-> 2, vagas_garagem |-> 1, area_m2 |-> 120,
     bairro |-> "Centro", score_escola_privada |-> 15000,
     score_escola_publica |-> 8000, score_hospitais |-> 6000,
     score_mercado |-> 12000, score_farmacia |-> 4000,
     score_parque |-> 9000, score_seguranca |-> 7000,
     faixa_area |-> "120-200"]

\* keys without the keys of the set gone, in the same order
Without(keys, gone) == SelectSeq(keys, LAMBDA k : k \notin gone)

AreaValues == (-1 .. MaxArea) \cup {NaN, Inf}

\* the dicts of SpecArea: the example with the area a, or without an area
\* (key absent, or None) when a is missing, and with faixa_area absent,
\* missing or given
AreaDicts(a) ==
    { Dict(Without(ExampleKeys, gone),
           [ExampleVal EXCEPT !.area_m2 = v, !.faixa_area = f]) :
        v \in (IF a = NaN THEN {NaN, None} ELSE {a}),
        gone \in (IF a = NaN THEN {{}, {"area_m2"}, {"faixa_area"},
                                   {"area_m2", "faixa_area"}}
                 ELSE {{}, {"faixa_area"}}),
        f \in {NaNLabel, "50-80"} }

InitArea ==
    /\ \E a \in AreaValues :
          /\ df = << [area_m2 |-> a] >>
          /\ arg \in AreaDicts(a)
    /\ data = arg
    /\ df_input = NoFrame
    /\ result = NoResult
    /\ faixa_df = NotRun
    /\ tipos_validos = NoTipos
    /\ out = NotRun
    /\ PoiIdle
    /\ AppIdle
    /\ RestIdle

NextArea == AddFaixaArea \/ Predict

SpecArea == InitArea /\ [][NextArea]_vars

(***************************************************************************)
(* Claims on the area bucket (SpecArea)                                    *)
(***************************************************************************)
IsNumber(x) == x # NaN /\ x # None
NonNegative(x) == IsNumber(x) /\ x >= 0

\* predict derived the bucket of the dict's own area
PredictDerived ==
    result.status = "ok" /\ NeedsFaixa(arg) /\ HasKey(arg, "area_m2")

\* the dict and the one-row table carry the same area (an absent key or a
\* None in the dict stand for the table's missing value)
SameArea ==
    /\ Len(df) = 1
    /\ IF HasKey(arg, "area_m2") /\ arg.val["area_m2"] # None
       THEN arg.val["area_m2"] = df[1]["area_m2"]
       ELSE df[1]["area_m2"] = NaN

\* C1: every non-negative area, 0 included, gets one of the six labels from
\* add_faixa_area and from the fallback of predict, never a missing label.
C1_BucketTotal ==
    /\ faixa_df.ran =>
          \A i \in DOMAIN df :
              NonNegative(df[i]["area_m2"]) =>
                  faixa_df.table[i]["faixa_area"] \in Range(AREA_LABELS)
    /\ (PredictDerived /\ NonNegative(arg.val["area_m2"])) =>
          df_input.row["faixa_area"] \in Range(AREA_LABELS)

\* C2: the label predict derives when the input has no faixa_area is the
\* label add_faixa_area gives to the same area, area 0 and an absent
\* area_m2 included.
C2_SameBucketInBothPaths ==
    (faixa_df.ran /\ result.status = "ok" /\ NeedsFaixa(arg) /\ SameArea) =>
        df_input.row["faixa_area"] = faixa_df.table[1]["faixa_area"]

\* the label the claim gives to an area on a bin edge or above 400
EdgeLabel(a) ==
    CASE a = 50 -> "Ate 50"
      [] a = 80 -> "50-80"
      [] a = 120 -> "80-120"
      [] a = 200 -> "120-200"
      [] a = 400 -> "200-400"
      [] OTHER -> "400+"
OnEdgeOrAbove(a) == IsNumber(a) /\ (a \in {50, 80, 120, 200, 400} \/ a > 400)

X_columns == NUM_FEATURES \o CAT_FEATURES

Reverse(s) == [i \in 1..Len(s) |-> s[Len(s) + 1 - i]]

\* keys a caller may send beside the features (app2 sends "cidade")
ExtraKeys == <<"cidade", "lat">>
ExtraVal == [cidade |-> "Ponta Grossa", lat |-> 0]

AllKeys == <<"cidade">> \o ExampleKeys \o <<"lat">>
AllVal == ExampleVal @@ ExtraVal

PredictAreas == {NaN, 0, 50, 120, 500}

PredictDicts ==
    { Dict(Without(order, gone \cup noextra),
           [AllVal EXCEPT !.area_m2 = a, !.faixa_area = f]) :
        order \in {AllKeys, Reverse(AllKeys)},
        gone \in {g \in SUBSET Range(X_columns) : Cardinality(g) <= MaxAbsent},
        noextra \in SUBSET Range(ExtraKeys),
        a \in PredictAreas,
        f \in {NaNLabel, "50-80"} }

InitPredict ==
    /\ arg \in PredictDicts
    /\ data = arg
    /\ df_input = NoFrame
    /\ result = NoResult
    /\ df = <<>>
    /\ faixa_df = NotRun
    /\ tipos_validos = NoTipos
    /\ out = NotRun
    /\ PoiIdle
    /\ AppIdle
    /\ RestIdle

NextPredict == Predict

SpecPredict == InitPredict /\ [][NextPredict]_vars

\* C4: the row predict hands to the pipeline has exactly the columns
\* NUM_FEATURES + CAT_FEATURES, in that order, as train.py selects them;
\* extra keys are dropped and every listed feature absent from the input
\* is nan.
C4_FeatureRowOriginal ==
    result.status = "ok" =>
        /\ df_input.columns = X_columns
        /\ DOMAIN df_input.row = Range(X_columns)
        /\ \A c \in Range(X_columns) :
              ~HasKey(arg, c) => df_input.row[c] = NaNOf(c)

\* C4 as amended: the same columns in the same order; every listed feature
\* other than faixa_area that the input lacks is nan, and a faixa_area
\* the input lacks is one of the six bucket labels, not nan.
C4_FeatureRow ==
    result.status = "ok" =>
        /\ df_input.columns = X_columns
        /\ DOMAIN df_input.row = Range(X_columns)
        /\ \A c \in Range(X_columns) \ {"faixa_area"} :
              ~HasKey(arg, c) => df_input.row[c] = NaNOf(c)
        /\ ~HasKey(arg, "faixa_area") =>
              df_input.row["faixa_area"] \in Range(AREA_LABELS)

\* predict ran on a dict in another order with an extra key, without the
\* numeric feature quartos, without bairro and without faixa_area
C4_Witness ==
    /\ result.status = "ok"
    /\ HasKey(arg, "cidade") /\ arg.keys[1] = "lat"
    /\ ~HasKey(arg, "quartos") /\ ~HasKey(arg, "faixa_area")
    /\ df_input.row["quartos"] = NaN
    /\ df_input.columns[1] = "quartos"

(***************************************************************************)
(* SpecTrain: prepare_dataset on a small csv, then predict on the raw      *)
(* inputs and the scores of one of its rows                                *)
(***************************************************************************)
MaxRows == 2        \* rows of the csv

Casa == <<"C", "a", "s", "a">>
Lote == <<"L", "o", "t", "e">>

BaseListing ==
    [index |-> 0, tipo_imovel |-> Casa, preco |-> 256000,
     quartos |-> 2, banheiros |-> 2, vagas_garagem |-> 1, area_m2 |-> 120,
     bairro |-> "Centro",
     dist_escolas_privadas_mais_proximo |-> 300, qtd_escolas_privadas_500m |-> 1,
     dist_escola_publicas_mais_proximo |-> 600, qtd_escola_publicas_500m |-> 0,
     dist_hospital_mais_proximo |-> 1200, qtd_hospital_1000m |-> 0,
     dist_mercado_mais_proximo |-> 400, qtd_mercado_500m |-> 2,
     dist_farmacia_mais_proximo |-> 300, qtd_farmacia_300m |-> 1,
     dist_parque_mais_proximo |-> 2400, qtd_parque_1000m |-> 0,
     dist_policia_mais_proximo |-> 1500, qtd_policia_500m |-> 0]

Listings ==
    { [BaseListing EXCEPT !.tipo_imovel = t, !.area_m2 = a, !.preco = p,
                          !.dist_escolas_privadas_mais_proximo = d] :
        t \in {Casa, Lote}, a \in {NaN, 0, 50}, p \in {NaN, 0, 256000},
        d \in {NaN, 300} }

\* pd.read_csv: the rows get the index labels 0, 1, ...; a csv written
\* with its index has the column "Unnamed: 0"
ReadCsv(rows, unnamed) ==
    [i \in DOMAIN rows |->
        LET r == [rows[i] EXCEPT !.index = i - 1]
        IN  IF unnamed THEN ("Unnamed: 0" :> i - 1) @@ r ELSE r]

RECURSIVE SeqsUpTo(_, _)
SeqsUpTo(S, n) ==
    IF n = 0 THEN { <<>> }
    ELSE LET shorter == SeqsUpTo(S, n - 1)
         IN  shorter \cup {Append(q, x) : q \in shorter, x \in S}

\* the raw row of the csv with the index label k
RawRow(k) == df[CHOOSE i \in DOMAIN df : df[i]["index"] = k]

\* the dict a caller builds for a training row: the raw structural inputs
\* of the listing and the scores of the row
RoundTripKeys == Without(ExampleKeys, {"faixa_area"})
RoundTripDict(row) ==
    Dict(RoundTripKeys,
         [k \in Range(RoundTripKeys) |->
            IF k \in {"quartos", "banheiros", "vagas_garagem", "area_m2", "bairro"}
            THEN RawRow(row["index"])[k] ELSE row[k]])

InitTrain ==
    /\ \E rows \in SeqsUpTo(Listings, MaxRows), unnamed \in BOOLEAN :
          df = ReadCsv(rows, unnamed)
    /\ tipos_validos \in {NoTipos, {"casa", "terreno"}}
    /\ arg = Dict(<<>>, <<>>)
    /\ data = arg
    /\ df_input = NoFrame
    /\ result = NoResult
    /\ faixa_df = NotRun
    /\ out = NotRun
    /\ PoiIdle
    /\ AppIdle
    /\ RestIdle

\* prepare_dataset(path, tipos_validos)
PrepareDataset ==
    /\ ~out.ran
    /\ out' = [ran |-> TRUE, table |-> prepare_dataset(df, tipos_validos)]
    /\ UNCHANGED <<arg, data, df_input, result, df, faixa_df, tipos_validos>>
    /\ UNCHANGED <<poiVars, classVars, restVars, appVars>>

\* predict on the dict built for one row of the prepared table
PredictRow ==
    /\ out.ran
    /\ result = NoResult
    /\ \E i \in DOMAIN out.table :
          /\ arg' = RoundTripDict(out.table[i])
          /\ PredictCall(arg')
    /\ UNCHANGED <<df, faixa_df, tipos_validos, out>>
    /\ UNCHANGED <<poiVars, classVars, restVars, appVars>>

NextTrain == PrepareDataset \/ PredictRow

SpecTrain == InitTrain /\ [][NextTrain]_vars

\* the row of the prepared table the dict of the last predict was built from
RoundTripRows == {i \in DOMAIN out.table : arg = RoundTripDict(out.table[i])}

\* C5: for every row prepare_dataset outputs, predict on that row's raw
\* structural inputs and scores builds a feature row identical to the
\* training row restricted to NUM_FEATURES + CAT_FEATURES, same values and
\* same column order.
C5_RoundTripParity ==
    (out.ran /\ result.status = "ok") =>
        \A i \in RoundTripRows :
            /\ df_input.columns = X_columns
            /\ \A c \in Range(X_columns) : df_input.row[c] = out.table[i][c]

(***************************************************************************)
(* SpecPrepare: prepare_dataset on a csv of a few listings                 *)
(***************************************************************************)
MaxListings == 3    \* rows of the csv of SpecPrepare

Sala == <<"S", "a", "l", "a">>

\* the listings of the csv: the base listing, and the base listing with
\* another type, area, price or distance to the nearest private school
PrepListings ==
    {[BaseListing EXCEPT !.tipo_imovel = t] : t \in {Casa, Lote, Sala, NaNText}}
    \cup {[BaseListing EXCEPT !.area_m2 = a] : a \in {NaN, 50}}
    \cup {[BaseListing EXCEPT !.preco = p] : p \in {NaN, -5, 0, 1}}
    \cup {[BaseListing EXCEPT !.dist_escolas_privadas_mais_proximo = d] :
            d \in {NaN, 600}}

InitPrepare ==
    /\ \E rows \in SeqsUpTo(PrepListings, MaxListings) : df = ReadCsv(rows, FALSE)
    /\ tipos_validos \in {NoTipos, {"casa", "terreno"}}
    /\ faixa_df = NotRun
    /\ out = NotRun
    /\ PredIdle
    /\ PoiIdle
    /\ AppIdle
    /\ RestIdle

NextPrepare == PrepareDataset

SpecPrepare == InitPrepare /\ [][NextPrepare]_vars

(***************************************************************************)
(* Claims on prepare_dataset (SpecPrepare)                                 *)
(***************************************************************************)
\* the allow-list of the call: the documented default, or the one given
AllowList ==
    IF tipos_validos = NoTipos THEN {"casa", "apartamento", "comercial"}
    ELSE tipos_validos

\* the index labels of the rows of a table, in order
Labels(frame) == [i \in DOMAIN frame |-> frame[i]["index"]]

\* the rows of the csv whose classified type is in the allow-list
Allowed ==
    SelectSeq(df, LAMBDA row :
        classificar_tipo_imovel(row["tipo_imovel"]) \in AllowList)

\* C14: every row prepare_dataset returns has a type category of the
\* allow-list (by default casa, apartamento, comercial), and every row of
\* the csv whose classified category is in the allow-list is in the
\* output: the filter removes the other rows and only them.
C14_AllowListFilter ==
    out.ran =>
        /\ \A i \in DOMAIN out.table :
              out.table[i]["tipo_imovel_cat"] \in AllowList
        /\ Labels(out.table) = Labels(Allowed)

\* a csv of three rows with the default allow-list: a lot is removed, a
\* house and a commercial room are kept
C14_Witness ==
    /\ out.ran /\ tipos_validos = NoTipos
    /\ Len(df) = 3 /\ Len(out.table) = 2
    /\ \E i \in DOMAIN df : df[i]["tipo_imovel"] = Lote
    /\ {out.table[i]["tipo_imovel_cat"] : i \in DOMAIN out.table}
          = {"casa", "comercial"}

\* ln(max(preco, 1)) as the documentation defines the target, in 1/SCALE
LogTarget(preco) == IF preco <= 1 THEN 0 ELSE NpLog(preco)

\* C15: for every listing with a present price log_preco is
\* ln(max(preco, 1)): a price at or below 1 (0 and negative prices
\* included) gives 0, and log_preco is never negative, minus infinity or
\* missing.
C15_LogTargetClamped ==
    out.ran =>
        \A i \in DOMAIN out.table :
            LET preco == RawRow(out.table[i]["index"])["preco"]
                log_preco == out.table[i]["log_preco"]
            IN  preco # NaN =>
                    /\ log_preco = LogTarget(preco)
                    /\ log_preco # NaN /\ log_preco # -Inf /\ log_preco >= 0

\* listings with the prices 0 and -5 got the target 0, and one with a price
\* above 1 a positive target
C15_Witness ==
    /\ out.ran
    /\ \E i, j, k \in DOMAIN out.table :
          /\ RawRow(out.table[i]["index"])["preco"] = 0
          /\ out.table[i]["log_preco"] = 0
          /\ RawRow(out.table[j]["index"])["preco"] = -5
          /\ out.table[j]["log_preco"] = 0
          /\ RawRow(out.table[k]["index"])["preco"] = 256000
          /\ out.table[k]["log_preco"] > 0

\* the numeric columns of the table returned
NumericOut == NumericColumns(out.table)

\* the value of a numeric column of a listing of the csv before the
\* imputation, each step taken in the documented order: the raw value, the
\* score of the raw distances and counts (the row scored), the target of
\* the raw price
BeforeImputation(row, rowScored, c) ==
    IF c = "log_preco"
    THEN (IF row["preco"] = NaN THEN NaN ELSE LogTarget(row["preco"]))
    ELSE IF c \in DOMAIN row THEN row[c]
    ELSE rowScored[c]

\* the numeric columns of the rows before the imputation
BeforeImputationOf(rows, cols) ==
    [i \in DOMAIN rows |->
        LET rowScored == add_poi_scores_row(rows[i])
        IN  [c \in cols |-> BeforeImputation(rows[i], rowScored, c)]]

\* the numeric columns of the allowed rows before the imputation
PostFilter == BeforeImputationOf(Allowed, NumericOut)

\* C16: prepare_dataset runs scores, classification, allow-list filter,
\* area bucket, log target and imputation in this order: the median that
\* fills a missing value of a numeric column is the median of the column
\* over the rows that pass the filter, taken after the scores and the
\* target were computed; the bucket is that of the raw area; and a numeric
\* column with a present value has no missing value after the imputation.
C16_MedianAfterFilter ==
    out.ran =>
        \A allowed \in {Allowed}, post \in {PostFilter} :
            /\ Len(out.table) = Len(allowed)
            /\ \A c \in NumericOut :
                  \A median \in {Median(post, c)} :
                      \A i \in DOMAIN out.table :
                          /\ post[i][c] # NaN => out.table[i][c] = post[i][c]
                          /\ post[i][c] = NaN => out.table[i][c] = median
                          /\ median # NaN => out.table[i][c] # NaN
            /\ \A i \in DOMAIN out.table :
                  out.table[i]["faixa_area"] =
                      PdCut(allowed[i]["area_m2"], AREA_BINS, AREA_LABELS)

\* a lot of 120 m2 is removed, a house without area and a house of 50 m2
\* are kept: the missing area is filled with 50, the median of the kept
\* rows, and its bucket stays missing
C16_Witness ==
    /\ out.ran /\ tipos_validos = NoTipos
    /\ \E k \in DOMAIN df :
          df[k]["tipo_imovel"] = Lote /\ df[k]["area_m2"] = 120
    /\ Len(out.table) = 2
    /\ \E i, j \in DOMAIN out.table :
          /\ RawRow(out.table[i]["index"])["area_m2"] = NaN
          /\ RawRow(out.table[j]["index"])["area_m2"] = 50
          /\ out.table[i]["area_m2"] = 50
          /\ out.table[i]["faixa_area"] = NaNLabel

\* C17: when a numeric column has no present value in the filtered
\* dataset, prepare_dataset does not return normally with the column still
\* entirely missing (nor filled with zero): it surfaces the condition.
C17_EmptyColumnSurfaced ==
    out.ran =>
        \A post \in {PostFilter} :
            \A c \in NumericOut :
                (Len(post) > 0 /\ Present(post, c) = {}) =>
                    \E i \in DOMAIN out.table :
                        out.table[i][c] # NaN /\ out.table[i][c] # 0

(***************************************************************************)
(* SpecClassify: classificar_tipo_imovel on the texts of a listing         *)
(***************************************************************************)
MaxWords == 2       \* words of a text

\* the words a text is made of, each with the group the documentation puts
\* it in: 1 land/lot, 2 apartment family, 3 house family, 4 commercial
\* family, 5 building, 6 none
Vocabulary == <<
    [word |-> <<"T","e","r","r","e","n","o">>, group |-> 1],
    [word |-> <<"L","O","T","E","A","M","E","N","T","O">>, group |-> 1],
    [word |-> <<"A","p","a","r","t","a","m","e","n","t","o","s">>, group |-> 2],
    [word |-> <<"K","I","T","N","E","T">>, group |-> 2],
    [word |-> <<"d","u","p","l","e","x">>, group |-> 2],
    [word |-> <<"C","a","s","a">>, group |-> 3],
    [word |-> <<"S","O","B","R","A","D","O">>, group |-> 3],
    [word |-> <<"S","a","l","a">>, group |-> 4],
    [word |-> <<"G","A","L","P","A~","O">>, group |-> 4],
    [word |-> <<"c","o","m","e","r","c","i","a","l">>, group |-> 4],
    [word |-> <<"P","r","e'","d","i","o">>, group |-> 5],
    [word |-> <<"E","D","I","F","I'","C","I","O">>, group |-> 5],
    [word |-> <<"F","a","z","e","n","d","a">>, group |-> 6],
    [word |-> <<"s","t","u","d","i","o">>, group |-> 6] >>

\* the words joined by one space
RECURSIVE Join(_)
Join(words) ==
    IF Len(words) = 0 THEN <<>>
    ELSE IF Len(words) = 1 THEN words[1]
    ELSE words[1] \o <<" ">> \o Join(Tail(words))

\* the texts of the column tipo_imovel: up to MaxWords words, or missing
Texts ==
    {Join([i \in DOMAIN ws |-> Vocabulary[ws[i]].word]) :
        ws \in SeqsUpTo(DOMAIN Vocabulary, MaxWords)}
    \cup {NaNText}

InitClassify ==
    /\ tipo_imovel \in Texts
    /\ tipo_imovel_cat = NoCat
    /\ ApiIdle
    /\ RestIdle
    /\ PredIdle
    /\ TrainIdle
    /\ PoiIdle

\* df["tipo_imovel"].apply(classificar_tipo_imovel) on one text
Classificar ==
    /\ tipo_imovel_cat = NoCat
    /\ tipo_imovel_cat' = classificar_tipo_imovel(tipo_imovel)
    /\ UNCHANGED <<tipo_imovel, appVars, predVars, trainVars, poiVars, restVars>>

NextClassify == Classificar

SpecClassify == InitClassify /\ [][NextClassify]_vars

\* the words of a text, split at the spaces
RECURSIVE Split(_, _)
Split(text, word) ==
    IF Len(text) = 0 THEN (IF Len(word) = 0 THEN <<>> ELSE <<word>>)
    ELSE IF Head(text) = " "
         THEN (IF Len(word) = 0 THEN <<>> ELSE <<word>>) \o Split(Tail(text), <<>>)
    ELSE Split(Tail(text), Append(word, Head(text)))

\* the group the documentation gives to a word of the vocabulary
GroupOf(word) ==
    Vocabulary[CHOOSE i \in DOMAIN Vocabulary : Vocabulary[i].word = word].group

TIPO_CATEGORIES == <<"terreno", "apartamento", "casa", "comercial", "predio", "outros">>

\* the earliest group of the words of the text
EarliestGroup(text) ==
    LET G == {GroupOf(w) : w \in Range(Split(text, <<>>))} \cup {6}
    IN  CHOOSE g \in G : \A h \in G : g <= h

\* C13: classificar_tipo_imovel decides by the first match in the order
\* land/lot, apartment family, house family, commercial family, building,
\* else "outros": a text with keywords of several groups gets the category
\* of the earliest group, whatever the case of its letters and with the
\* keyword inside a longer word; a missing text gives "outros"; the result
\* is one of the six categories.
C13_FirstMatchWins ==
    tipo_imovel_cat # NoCat =>
        /\ tipo_imovel_cat \in Range(TIPO_CATEGORIES)
        /\ tipo_imovel = NaNText => tipo_imovel_cat = "outros"
        /\ tipo_imovel # NaNText =>
              tipo_imovel_cat = TIPO_CATEGORIES[EarliestGroup(tipo_imovel)]

\* "Casa Apartamentos": a house keyword before an apartment keyword in the
\* text, classified as apartamento
C13_Witness ==
    /\ tipo_imovel = Join(<<Vocabulary[6].word, Vocabulary[3].word>>)
    /\ tipo_imovel_cat = "apartamento"

(***************************************************************************)
(* api/main.py: ImovelInput, lifespan and POST /predict                    *)
(***************************************************************************)
\* the fields of ImovelInput in the order of the class (the order of
\* model_dump)
IMOVEL_FIELDS == <<"quartos", "banheiros", "vagas_garagem", "area_m2", "bairro",
                   "score_escola_privada", "score_escola_publica",
                   "score_hospitais", "score_mercado", "score_farmacia",
                   "score_parque", "score_seguranca">>

\* the fields declared with a default: vagas_garagem (0) and the seven
\* scores (0.0); the other fields are required
FIELD_DEFAULTS ==
    [vagas_garagem |-> 0, score_escola_privada |-> 0, score_escola_publica |-> 0,
     score_hospitais |-> 0, score_mercado |-> 0, score_farmacia |-> 0,
     score_parque |-> 0, score_seguranca |-> 0]

\* the constraints of Field(...) on a value given for the field
FieldValid(f, v) ==
    IF f \in {"quartos", "banheiros", "vagas_garagem"}
    THEN IsNumber(v) /\ v >= 0 /\ v <= 20
    ELSE IF f = "area_m2" THEN IsNumber(v) /\ v > 0 /\ v <= 10000
    ELSE IF f = "bairro" THEN TRUE
    ELSE IsNumber(v) /\ v >= 0

\* the body validates as an ImovelInput: the required fields are given
\* and every given field meets its constraints; other keys are ignored
Validates(body) ==
    \A i \in DOMAIN IMOVEL_FIELDS :
        LET f == IMOVEL_FIELDS[i]
        IN  IF HasKey(body, f) THEN FieldValid(f, body.val[f])
            ELSE f \in DOMAIN FIELD_DEFAULTS

\* imovel.model_dump(): every field, a field not given with its default
model_dump(body) ==
    [keys |-> IMOVEL_FIELDS,
     val |-> [f \in Range(IMOVEL_FIELDS) |->
                IF HasKey(body, f) THEN body.val[f] ELSE FIELD_DEFAULTS[f]]]

\* PredictionOutput(preco_estimado=..., log_preco=...) as the answer 200
PredictionOutput(res) ==
    [status |-> 200, preco_estimado |-> res.preco_estimado,
     log_preco |-> res.log_preco, moeda |-> "BRL"]

\* POST /predict with the body: 422 when the body does not validate, 503
\* without a model, else predict on the dumped input
PostPredict(body) ==
    /\ request' = body
    /\ IF ~Validates(body)
       THEN response' = [status |-> 422] /\ UNCHANGED predVars
       ELSE IF model # "loaded"
       THEN response' = [status |-> 503] /\ UNCHANGED predVars
       ELSE /\ arg' = model_dump(body)
            /\ PredictCall(arg')
            /\ response' = IF result'.status = "ok" THEN PredictionOutput(result')
                           ELSE [status |-> 500]

\* lifespan: load_model() gives the pipeline, or fails and the API starts
\* without a model
Lifespan ==
    /\ model = "unset"
    /\ model' \in {"loaded", "None"}
    /\ UNCHANGED <<request, response, form, geo, trace, saved>>
    /\ UNCHANGED <<predVars, trainVars, poiVars, classVars, restVars>>

(***************************************************************************)
(* SpecApi: the API starts and answers one POST /predict                   *)
(***************************************************************************)
ApiKeys == <<"cidade">> \o ExampleKeys
ApiVal == ExampleVal @@ [cidade |-> "Ponta Grossa"]

\* the bodies posted: the example with fields left out, with or without
\* the keys that are not fields, and with an area or a garage count the
\* constraints may reject
ApiBodies ==
    { Dict(Without(ApiKeys, gone \cup noextra),
           [ApiVal EXCEPT !.area_m2 = a, !.vagas_garagem = v]) :
        gone \in {g \in SUBSET Range(IMOVEL_FIELDS) : Cardinality(g) <= MaxAbsent},
        noextra \in SUBSET {"cidade", "faixa_area"},
        a \in {0, 120},
        v \in {1, 21} }

InitApi ==
    /\ ApiIdle
    /\ RestIdle
    /\ ClassIdle
    /\ PredIdle
    /\ TrainIdle
    /\ PoiIdle

\* predict_price(imovel) on one request
PredictPrice ==
    /\ model # "unset"
    /\ response = NoResponse
    /\ \E body \in ApiBodies : PostPredict(body)
    /\ UNCHANGED <<model, form, geo, trace, saved>>
    /\ UNCHANGED <<trainVars, poiVars, classVars, restVars>>

NextApi == Lifespan \/ PredictPrice

SpecApi == InitApi /\ [][NextApi]_vars

\* C18: a feature the request does not supply is never replaced by a
\* silent zero: for a request to POST /predict without a proximity score
\* or without vagas_garagem, the value of that feature in the row handed
\* to the pipeline is not 0.
C18_NoSilentZero ==
    response.status = 200 =>
        \A f \in DOMAIN FIELD_DEFAULTS :
            ~HasKey(request, f) => df_input.row[f] # 0

(***************************************************************************)
(* app2.py: the POI tables                                                 *)
(*                                                                         *)
(* Positions.  Every modelled point lies on one meridian (lon 0); a       *)
(* latitude is an integer number of grid steps of GRID_M metres of arc.    *)
(* An angle in radians is an integer number of 1/ANGLE_UNIT rad.           *)
(***************************************************************************)
MaxPois == 2        \* rows of the POI table that varies
MaxStep == 2        \* the target is at grid step 0 .. MaxStep - 1

EARTH_RADIUS == 6371000
ANGLE_UNIT == 127420    \* 1 rad = ANGLE_UNIT angle units (EARTH_RADIUS / 50)
GRID_M == 100           \* metres of arc of one grid step of latitude

\* the grid steps POIs are placed at: on, inside and outside each radius
\* (300, 500, 1000 m) as seen from the targets
PoiLats == {0, 3, 4, 5, 6, 10, 11}

\* a parsed WKT geometry: a point, or a text wkt.loads rejects
Point(x, y) == [type |-> "Point", x |-> x, y |-> y]
InvalidWkt == [type |-> "invalid", x |-> 0, y |-> 0]

\* a table of POIs: its columns and its rows
Table(columns, rows) == [columns |-> columns, rows |-> rows]

\* rows with lat / lon columns, one of them missing in some rows
LatLonRows ==
    {[lat |-> y, lon |-> 0] : y \in PoiLats \cup {NaN}} \cup {[lat |-> 0, lon |-> NaN]}
\* rows with a geometry
GeometryRows ==
    {[geometry |-> g] : g \in {Point(0, y) : y \in PoiLats} \cup {InvalidWkt}}
\* rows with a standardised geometry beside the raw one
GeometryStdRows ==
    {[geometry |-> InvalidWkt, geometry_std |-> g] :
        g \in {Point(0, y) : y \in PoiLats} \cup {InvalidWkt}}

\* the tables one csv file may hold
Tables ==
    {Table({"lat", "lon"}, r) : r \in SeqsUpTo(LatLonRows, MaxPois)}
    \cup {Table({"geometry"}, r) : r \in SeqsUpTo(GeometryRows, MaxPois)}
    \cup {Table({"geometry", "geometry_std"}, r) :
            r \in SeqsUpTo(GeometryStdRows, 1)}

\* escolas.csv: every row has its tipo_escola; the schools are all public,
\* all private, or public and private in turn
WithTipoEscola(t, tipos) ==
    Table(t.columns \cup {"tipo_escola"},
          [i \in DOMAIN t.rows |->
              ("tipo_escola" :> (IF tipos # "mixed" THEN tipos
                                 ELSE IF i % 2 = 1 THEN "publica" ELSE "privada"))
              @@ t.rows[i]])
EscolasTables ==
    {WithTipoEscola(t, tipos) :
        t \in Tables, tipos \in {"publica", "privada", "mixed"}}

\* the csv files carregar_pois reads
CSV_FILES == {"escolas", "hospitais", "parques", "farmacia", "mercados", "policia"}

\* a file of the tables that do not vary: one POI 300 m north of step 0
DefaultTable == Table({"geometry"}, << [geometry |-> Point(0, 3)] >>)
DefaultEscolas ==
    Table({"geometry", "tipo_escola"},
          << [geometry |-> Point(0, 3), tipo_escola |-> "publica"],
             [geometry |-> Point(0, 5), tipo_escola |-> "privada"] >>)

\* escolas[escolas["tipo_escola"] == tipo].copy()
OfTipo(t, tipo) ==
    Table(t.columns, SelectSeq(t.rows, LAMBDA r : r["tipo_escola"] = tipo))

\* carregar_pois(): the dict it returns for the files read
carregar_pois(files) ==
    [k \in {"escolas_publicas", "escolas_privadas", "hospitais", "parques",
            "farmacia", "mercado", "policia"} |->
        CASE k = "escolas_publicas" -> OfTipo(files["escolas"], "publica")
          [] k = "escolas_privadas" -> OfTipo(files["escolas"], "privada")
          [] k = "mercado" -> files["mercados"]
          [] OTHER -> files[k]]

(***************************************************************************)
(* app2.py: extract_lat_lon_from_geometry and calcular_poi_features        *)
(***************************************************************************)
\* get_lat_lon with the origin in place of None, None
GetLatLonOrigin(g) ==
    IF g.type = "Point" THEN [lat |-> g.y, lon |-> g.x]
    ELSE [lat |-> 0, lon |-> 0]

\* get_lat_lon: the centroid of the parsed geometry, or None, None
GetLatLon(g) ==
    IF g.type = "Point" THEN [lat |-> g.y, lon |-> g.x]
    ELSE [lat |-> NaN, lon |-> NaN]

\* extract_lat_lon_from_geometry(df, geometry_col).  On a table without
\* rows Series.apply returns an empty Series, not a frame with the columns
\* lat and lon, so pd.concat adds neither column.
extract_lat_lon_from_geometry(t, geometry_col) ==
    IF Len(t.rows) = 0 THEN t
    ELSE Table(t.columns \cup {"lat", "lon"},
               [i \in DOMAIN t.rows |-> GetLatLon(t.rows[i][geometry_col]) @@ t.rows[i]])

\* the table after "Extrair coordenadas (se ainda nao tiver lat/lon)"
WithCoordinates(t) ==
    IF "lat" \notin t.columns \/ "lon" \notin t.columns
    THEN extract_lat_lon_from_geometry(t,
             IF "geometry_std" \in t.columns THEN "geometry_std" ELSE "geometry")
    ELSE t

\* df_poi.dropna(subset=["lat", "lon"]) raises KeyError when a column of
\* the subset is not in the frame
DropnaRaises(t) == "lat" \notin t.columns \/ "lon" \notin t.columns
Dropna(t) ==
    Table(t.columns, SelectSeq(t.rows, LAMBDA r : r["lat"] # NaN /\ r["lon"] # NaN))

\* np.radians of a coordinate given in grid steps, in angle units
Radians(x) == (x * GRID_M * ANGLE_UNIT) \div EARTH_RADIUS
RadiansPoint(lat, lon) == <<Radians(lat), Radians(lon)>>

Abs(x) == IF x < 0 THEN 0 - x ELSE x

\* the haversine metric of BallTree on two points (lat, lon) in angle
\* units; the modelled points have the same longitude, where the
\* great-circle distance is the difference of the latitudes
Haversine(p, q) == Abs(p[1] - q[1])

\* BallTree(poi_coords, metric="haversine"): the points it indexes
BallTree(coords) == [data |-> coords]

\* tree.query(x, k=1): the distance to the nearest indexed point
RECURSIVE NearestFrom(_, _, _)
NearestFrom(tree, x, n) ==
    IF n = 1 THEN Haversine(x, tree.data[1])
    ELSE LET rest == NearestFrom(tree, x, n - 1)
             d == Haversine(x, tree.data[n])
         IN  IF d < rest THEN d ELSE rest
Query(tree, x) == NearestFrom(tree, x, Len(tree.data))

\* the angle returned as it is, without the factor 6371000
ToMetresUnscaled(angle) == angle

\* dist[0, 0] * 6371000: an angle as metres
ToMetres(angle) == (angle * EARTH_RADIUS) \div ANGLE_UNIT

\* the radius taken as open: a point on it is left out
InRadiusOpen(angle, radius) == angle * EARTH_RADIUS < radius * ANGLE_UNIT

\* a point is in the radius when its angle is <= radius / 6371000 rad
InRadius(angle, radius) == angle * EARTH_RADIUS <= radius * ANGLE_UNIT

\* tree.query_radius(x, r=radius / 6371000, count_only=True)
RECURSIVE CountFrom(_, _, _, _)
CountFrom(tree, x, radius, n) ==
    IF n = 0 THEN 0
    ELSE CountFrom(tree, x, radius, n - 1)
         + (IF InRadius(Haversine(x, tree.data[n]), radius) THEN 1 ELSE 0)
QueryRadius(tree, x, radius) == CountFrom(tree, x, radius, Len(tree.data))

\* configs with the radius of the pharmacies taken as 500
CONFIGS_Farmacia500 == << [name |-> "escolas_privadas", radius |-> 500],
                          [name |-> "escola_publicas", radius |-> 500],
                          [name |-> "hospital", radius |-> 1000],
                          [name |-> "mercado", radius |-> 500],
                          [name |-> "farmacia", radius |-> 500],
                          [name |-> "parque", radius |-> 1000],
                          [name |-> "policia", radius |-> 500] >>

\* configs: the categories in the order of the dict, each with its radius
CONFIGS == << [name |-> "escolas_privadas", radius |-> 500],
              [name |-> "escola_publicas", radius |-> 500],
              [name |-> "hospital", radius |-> 1000],
              [name |-> "mercado", radius |-> 500],
              [name |-> "farmacia", radius |-> 300],
              [name |-> "parque", radius |-> 1000],
              [name |-> "policia", radius |-> 500] >>

\* "Ajustar nome do POI se necessario"
PoiKey(poi_name) ==
    IF poi_name = "escola_publicas" THEN "escolas_publicas"
    ELSE IF poi_name = "hospital" THEN "hospitais"
    ELSE IF poi_name = "parque" THEN "parques"
    ELSE poi_name

DistKey(poi_name) == "dist_" \o poi_name \o "_mais_proximo"
QtdKey(poi_name, radius) == "qtd_" \o poi_name \o "_" \o ToString(radius) \o "m"

\* one turn of the loop: the two features of the category added to feats
CategoryFeatures(feats, cfg, target, tables) ==
    LET df_poi == Dropna(WithCoordinates(tables[PoiKey(cfg.name)]))
        poi_coords == [i \in DOMAIN df_poi.rows |->
                          RadiansPoint(df_poi.rows[i]["lat"], df_poi.rows[i]["lon"])]
        tree == BallTree(poi_coords)
        x == RadiansPoint(target.lat, target.lon)
    IN  IF Len(df_poi.rows) = 0
        THEN (DistKey(cfg.name) :> NaN) @@ (QtdKey(cfg.name, cfg.radius) :> 0) @@ feats
        ELSE (DistKey(cfg.name) :> ToMetres(Query(tree, x)))
             @@ (QtdKey(cfg.name, cfg.radius) :> QueryRadius(tree, x, cfg.radius))
             @@ feats

\* the loop over the first n categories; KeyError ends the call.  queried
\* lists the turns of the loop that began: the table read (pois[poi_key]),
\* the name of the category and its radius.
RECURSIVE FeaturesLoop(_, _, _)
FeaturesLoop(target, tables, n) ==
    IF n = 0 THEN [status |-> "ok", val |-> <<>>, queried |-> <<>>]
    ELSE LET before == FeaturesLoop(target, tables, n - 1)
             cfg == CONFIGS[n]
             turn == [table |-> PoiKey(cfg.name), name |-> cfg.name,
                      radius |-> cfg.radius]
         IN  IF before.status # "ok" THEN before
             ELSE IF PoiKey(cfg.name) \notin DOMAIN tables
             THEN [status |-> "KeyError", val |-> <<>>,
                   queried |-> Append(before.queried, turn)]
             ELSE IF DropnaRaises(WithCoordinates(tables[PoiKey(cfg.name)]))
             THEN [status |-> "KeyError", val |-> <<>>,
                   queried |-> Append(before.queried, turn)]
             ELSE [status |-> "ok",
                   val |-> CategoryFeatures(before.val, cfg, target, tables),
                   queried |-> Append(before.queried, turn)]

calcular_poi_features(target, tables) == FeaturesLoop(target, tables, Len(CONFIGS))

(***************************************************************************)
(* app2.py: calcular_scores                                                *)
(***************************************************************************)
\* calcular_scores with the decay length of the hospitals taken as its radius
APP_SCORES_HospitalRadius == <<
    [score |-> "score_escola_privada", w |-> 12,
     dist |-> "dist_escolas_privadas_mais_proximo", len |-> 600,
     c |-> 6, qtd |-> "qtd_escolas_privadas_500m"],
    [score |-> "score_escola_publica", w |-> 6,
     dist |-> "dist_escola_publicas_mais_proximo", len |-> 600,
     c |-> 2, qtd |-> "qtd_escola_publicas_500m"],
    [score |-> "score_hospitais", w |-> 8,
     dist |-> "dist_hospital_mais_proximo", len |-> 1000,
     c |-> 4, qtd |-> "qtd_hospital_1000m"],
    [score |-> "score_mercado", w |-> 10,
     dist |-> "dist_mercado_mais_proximo", len |-> 400,
     c |-> 4, qtd |-> "qtd_mercado_500m"],
    [score |-> "score_farmacia", w |-> 6,
     dist |-> "dist_farmacia_mais_proximo", len |-> 300,
     c |-> 2, qtd |-> "qtd_farmacia_300m"],
    [score |-> "score_parque", w |-> 12,
     dist |-> "dist_parque_mais_proximo", len |-> 1200,
     c |-> 8, qtd |-> "qtd_parque_1000m"],
    [score |-> "score_seguranca", w |-> 10,
     dist |-> "dist_policia_mais_proximo", len |-> 1500,
     c |-> 3, qtd |-> "qtd_policia_500m"] >>

\* the seven assignments of calcular_scores, read as those of add_poi_scores
APP_SCORES == <<
    [score |-> "score_escola_privada", w |-> 12,
     dist |-> "dist_escolas_privadas_mais_proximo", len |-> 600,
     c |-> 6, qtd |-> "qtd_escolas_privadas_500m"],
    [score |-> "score_escola_publica", w |-> 6,
     dist |-> "dist_escola_publicas_mais_proximo", len |-> 600,
     c |-> 2, qtd |-> "qtd_escola_publicas_500m"],
    [score |-> "score_hospitais", w |-> 8,
     dist |-> "dist_hospital_mais_proximo", len |-> 1200,
     c |-> 4, qtd |-> "qtd_hospital_1000m"],
    [score |-> "score_mercado", w |-> 10,
     dist |-> "dist_mercado_mais_proximo", len |-> 400,
     c |-> 4, qtd |-> "qtd_mercado_500m"],
    [score |-> "score_farmacia", w |-> 6,
     dist |-> "dist_farmacia_mais_proximo", len |-> 300,
     c |-> 2, qtd |-> "qtd_farmacia_300m"],
    [score |-> "score_parque", w |-> 12,
     dist |-> "dist_parque_mais_proximo", len |-> 1200,
     c |-> 8, qtd |-> "qtd_parque_1000m"],
    [score |-> "score_seguranca", w |-> 10,
     dist |-> "dist_policia_mais_proximo", len |-> 1500,
     c |-> 3, qtd |-> "qtd_policia_500m"] >>

\* features[key] raises KeyError for a key the dict lacks
ScoresRaise(feats) ==
    \E i \in DOMAIN APP_SCORES :
        APP_SCORES[i].dist \notin DOMAIN feats \/ APP_SCORES[i].qtd \notin DOMAIN feats

calcular_scores(feats) ==
    [k \in {APP_SCORES[i].score : i \in DOMAIN APP_SCORES} |->
        LET e == APP_SCORES[CHOOSE i \in DOMAIN APP_SCORES : APP_SCORES[i].score = k]
        IN  ScoreFormula(e.w, feats[e.dist], e.len, e.c, feats[e.qtd])]

(***************************************************************************)
(* streamlit_app: api.prever_preco, db.salvar_predicao and the submit      *)
(* handlers of app.py and app2.py                                          *)
(***************************************************************************)
MaxSubmits == 2     \* submits of the forms in one behaviour

\* requests.post did not get an answer: request sent, status -1
PostDown(payload) ==
    /\ request' = payload
    /\ response' = [status |-> -1]
    /\ UNCHANGED predVars

\* prever_preco(payload): the POST; raise_for_status raises on every
\* answer but 200, requests.post raises when the API is not reachable
prever_preco(payload, net) ==
    IF net = "down" THEN PostDown(payload) ELSE PostPredict(payload)

\* resultado.get(key) on the JSON of the answer
JsonGet(res, key) == IF key \in DOMAIN res THEN res[key] ELSE NoneText

\* salvar_predicao(dados, preco, modelo, versao): the record handed to the
\* database
salvar_predicao(dados, preco, modelo, versao) ==
    saved' = Append(saved, [dados |-> dados, preco |-> preco,
                            modelo |-> modelo, versao |-> versao])

\* geocode_endereco with a default coordinate for an address not found
geocode_DefaultOnMiss(location) ==
    IF location.kind = "found"
    THEN [lat |-> location.latitude, lon |-> location.longitude, status |-> "sucesso"]
    ELSE IF location.kind = "none"
    THEN [lat |-> 0, lon |-> 0, status |-> "nao_encontrado"]
    ELSE [lat |-> None, lon |-> None, status |-> "erro"]

\* geocode_endereco(endereco_completo) on what the geocoder answers: a
\* location, None, or an exception
geocode_endereco(location) ==
    IF location.kind = "found"
    THEN [lat |-> location.latitude, lon |-> location.longitude, status |-> "sucesso"]
    ELSE IF location.kind = "none"
    THEN [lat |-> None, lon |-> None, status |-> "nao_encontrado"]
    ELSE [lat |-> None, lon |-> None, status |-> "erro"]

\* what Nominatim may answer (latitudes in grid steps)
Locations ==
    {[kind |-> "found", latitude |-> y, longitude |-> 0] : y \in {0, 1}}
    \cup {[kind |-> k, latitude |-> 0, longitude |-> 0] : k \in {"none", "exception"}}

\* the payload of app2.py ("ETAPA 4")
App2PayloadKeys == <<"cidade", "bairro", "area_m2", "quartos", "banheiros",
                     "vagas_garagem", "score_escola_privada",
                     "score_escola_publica", "score_hospitais", "score_mercado",
                     "score_farmacia", "score_parque", "score_seguranca">>
App2Payload(f, sc) ==
    [keys |-> App2PayloadKeys,
     val |-> [k \in Range(App2PayloadKeys) |->
                IF k \in DOMAIN sc THEN sc[k] ELSE f[k]]]

\* the payload of app.py
AppPayloadKeys == <<"cidade", "bairro", "area_m2", "banheiros", "quartos",
                    "vagas_garagem", "score_escola_privada",
                    "score_escola_publica", "score_farmacia", "score_hospitais",
                    "score_mercado", "score_parque", "score_seguranca">>
AppPayload(f) ==
    [keys |-> AppPayloadKeys, val |-> [k \in Range(AppPayloadKeys) |-> f[k]]]

\* the values of the form of app2.py at a submit
App2Forms ==
    {[app |-> "app2", n |-> 0, rua |-> r, bairro |-> b, cidade |-> "Ponta Grossa",
      estado |-> "PR", area_m2 |-> 100, quartos |-> 3, banheiros |-> 2,
      vagas_garagem |-> 1] :
        r \in {"", "Rua XV de Novembro"}, b \in {"", "Centro"}}

\* the values of the form of app.py at a submit (a slider at 1.0 is 10000)
AppForms ==
    {[app |-> "app", n |-> 0, cidade |-> "Ponta Grossa", bairro |-> "Centro",
      area_m2 |-> a, quartos |-> 0, banheiros |-> 0, vagas_garagem |-> 0,
      score_escola_privada |-> 10000, score_escola_publica |-> 10000,
      score_farmacia |-> 10000, score_hospitais |-> 10000,
      score_mercado |-> 10000, score_parque |-> 10000,
      score_seguranca |-> 10000] : a \in {10, 120}}

\* the steps of the submit handler of app2.py from the geocoding on
App2Pipeline(f, location, net) ==
    /\ geo' = geocode_endereco(location)
    /\ IF geo'.lat = None
       THEN /\ trace' = <<"geocode_endereco", "st.error", "st.stop">>
            /\ UNCHANGED <<imovel, poi_features, scores, saved>>
            /\ UNCHANGED <<request, response, predVars>>
       ELSE /\ imovel' = [lat |-> geo'.lat, lon |-> geo'.lon]
            /\ poi_features' = calcular_poi_features(imovel', pois)
            /\ IF poi_features'.status # "ok"
               THEN /\ trace' = <<"geocode_endereco", "calcular_poi_features">>
                    /\ UNCHANGED <<scores, saved>>
                    /\ UNCHANGED <<request, response, predVars>>
               ELSE /\ scores' = [status |-> "ok",
                                  val |-> calcular_scores(poi_features'.val)]
                    /\ prever_preco(App2Payload(f, scores'.val), net)
                    /\ IF response'.status = 200
                       THEN /\ salvar_predicao(request', response'.preco_estimado,
                                               "RealEstatePriceModel", "1.0.0")
                            /\ trace' = <<"geocode_endereco", "calcular_poi_features",
                                          "calcular_scores", "prever_preco",
                                          "salvar_predicao">>
                       ELSE /\ UNCHANGED saved
                            /\ trace' = <<"geocode_endereco", "calcular_poi_features",
                                          "calcular_scores", "prever_preco",
                                          "st.error">>

\* app2.py, "if submit:": one run of the handler
App2Submit ==
    /\ model # "unset"
    /\ form.n < MaxSubmits
    /\ \E f \in App2Forms, location \in Locations, net \in {"up", "down"} :
          /\ form' = [f EXCEPT !.n = form.n + 1]
          /\ IF f.rua = "" \/ f.bairro = ""
             THEN /\ trace' = <<"st.error">>
                  /\ UNCHANGED <<geo, imovel, poi_features, scores, saved>>
                  /\ UNCHANGED <<request, response, predVars>>
             ELSE App2Pipeline(f, location, net)
    /\ UNCHANGED <<model, pois, scored>>
    /\ UNCHANGED <<trainVars, classVars, restVars>>

\* app.py, "if submit:": one run of the handler; an exception of
\* prever_preco ends the run
AppSubmit ==
    /\ model # "unset"
    /\ form.n < MaxSubmits
    /\ \E f \in AppForms, net \in {"up", "down"} :
          /\ form' = [f EXCEPT !.n = form.n + 1]
          /\ prever_preco(AppPayload(f), net)
          /\ IF response'.status = 200
             THEN /\ salvar_predicao(request', response'.preco_estimado,
                                     JsonGet(response', "model_name"),
                                     JsonGet(response', "version"))
                  /\ trace' = <<"prever_preco", "salvar_predicao">>
             ELSE /\ UNCHANGED saved
                  /\ trace' = <<"prever_preco">>
    /\ UNCHANGED <<model, geo>>
    /\ UNCHANGED <<poiVars, trainVars, classVars, restVars>>

(***************************************************************************)
(* SpecApp: the API starts, the forms of app.py and app2.py are submitted  *)
(***************************************************************************)
\* the POI files of the app: the default tables, with a hospitais.csv that
\* has the default rows, no row, or one row whose geometry does not parse
AppFileSets ==
    {[f \in CSV_FILES |->
        IF f = "hospitais" THEN t
        ELSE IF f = "escolas" THEN DefaultEscolas ELSE DefaultTable] :
        t \in {DefaultTable, Table({"geometry"}, <<>>),
               Table({"geometry"}, << [geometry |-> InvalidWkt] >>)}}

InitApp ==
    /\ \E files \in AppFileSets : pois = carregar_pois(files)
    /\ imovel = [lat |-> 0, lon |-> 0]
    /\ poi_features = NoFeatures
    /\ scores = NoScores
    /\ scored = NotRun
    /\ AppIdle
    /\ RestIdle
    /\ PredIdle
    /\ TrainIdle

NextApp == Lifespan \/ AppSubmit \/ App2Submit

SpecApp == InitApp /\ [][NextApp]_vars

(***************************************************************************)
(* SpecPoi: the POI tables are loaded, one target is queried, the scores   *)
(* are computed by calcular_scores and by add_poi_scores                   *)
(***************************************************************************)
\* the files read: one file varies, the others hold the default table
FileSets ==
    {[f \in CSV_FILES |->
        IF f = focus THEN t
        ELSE IF f = "escolas" THEN DefaultEscolas ELSE DefaultTable] :
        focus \in CSV_FILES \ {"escolas"}, t \in Tables}
    \cup {[f \in CSV_FILES |-> IF f = "escolas" THEN t ELSE DefaultTable] :
            t \in EscolasTables}

InitPoi ==
    /\ pois = NoPois
    /\ imovel \in {[lat |-> y, lon |-> 0] : y \in 0 .. (MaxStep - 1)}
    /\ poi_features = NoFeatures
    /\ scores = NoScores
    /\ scored = NotRun
    /\ arg = Dict(<<>>, <<>>)
    /\ data = arg
    /\ df_input = NoFrame
    /\ result = NoResult
    /\ df = <<>>
    /\ faixa_df = NotRun
    /\ tipos_validos = NoTipos
    /\ out = NotRun
    /\ AppIdle
    /\ RestIdle

\* pois = carregar_pois(), once per process (st.cache_data)
CarregarPois ==
    /\ pois = NoPois
    /\ \E files \in FileSets : pois' = carregar_pois(files)
    /\ UNCHANGED <<imovel, poi_features, scores, scored>>
    /\ UNCHANGED <<predVars, trainVars, classVars, restVars, appVars>>

\* poi_features = calcular_poi_features(lat, lon, pois)
CalcularPoiFeatures ==
    /\ pois # NoPois
    /\ poi_features = NoFeatures
    /\ poi_features' = calcular_poi_features(imovel, pois)
    /\ UNCHANGED <<pois, imovel, scores, scored>>
    /\ UNCHANGED <<predVars, trainVars, classVars, restVars, appVars>>

\* scores = calcular_scores(poi_features)
CalcularScores ==
    /\ poi_features.status = "ok"
    /\ scores = NoScores
    /\ scores' = IF ScoresRaise(poi_features.val)
                 THEN [status |-> "KeyError", val |-> <<>>]
                 ELSE [status |-> "ok", val |-> calcular_scores(poi_features.val)]
    /\ UNCHANGED <<pois, imovel, poi_features, scored>>
    /\ UNCHANGED <<predVars, trainVars, classVars, restVars, appVars>>

\* add_poi_scores on the one-row table of the same distances and counts
AddPoiScores ==
    /\ poi_features.status = "ok"
    /\ ~scored.ran
    /\ scored' = [ran |-> TRUE, table |-> add_poi_scores(<< poi_features.val >>)]
    /\ UNCHANGED <<pois, imovel, poi_features, scores>>
    /\ UNCHANGED <<predVars, trainVars, classVars, restVars, appVars>>

NextPoi == CarregarPois \/ CalcularPoiFeatures \/ CalcularScores \/ AddPoiScores

SpecPoi == InitPoi /\ [][NextPoi]_vars

(***************************************************************************)
(* Claims on the proximity engine (SpecPoi)                                *)
(***************************************************************************)
\* the seven categories as the documentation names them: the table of the
\* category, its two feature keys, its radius in metres and its score
CATEGORIES == <<
    [table |-> "escolas_privadas", dist |-> "dist_escolas_privadas_mais_proximo",
     qtd |-> "qtd_escolas_privadas_500m", radius |-> 500,
     score |-> "score_escola_privada"],
    [table |-> "escolas_publicas", dist |-> "dist_escola_publicas_mais_proximo",
     qtd |-> "qtd_escola_publicas_500m", radius |-> 500,
     score |-> "score_escola_publica"],
    [table |-> "hospitais", dist |-> "dist_hospital_mais_proximo",
     qtd |-> "qtd_hospital_1000m", radius |-> 1000, score |-> "score_hospitais"],
    [table |-> "mercado", dist |-> "dist_mercado_mais_proximo",
     qtd |-> "qtd_mercado_500m", radius |-> 500, score |-> "score_mercado"],
    [table |-> "farmacia", dist |-> "dist_farmacia_mais_proximo",
     qtd |-> "qtd_farmacia_300m", radius |-> 300, score |-> "score_farmacia"],
    [table |-> "parques", dist |-> "dist_parque_mais_proximo",
     qtd |-> "qtd_parque_1000m", radius |-> 1000, score |-> "score_parque"],
    [table |-> "policia", dist |-> "dist_policia_mais_proximo",
     qtd |-> "qtd_policia_500m", radius |-> 500, score |-> "score_seguranca"] >>

\* the coordinates of a row of a POI table, nan when it has none
RowCoord(t, r) ==
    IF {"lat", "lon"} \subseteq t.columns THEN [lat |-> r["lat"], lon |-> r["lon"]]
    ELSE LET g == IF "geometry_std" \in t.columns THEN r["geometry_std"]
                  ELSE r["geometry"]
         IN  IF g.type = "Point" THEN [lat |-> g.y, lon |-> g.x]
             ELSE [lat |-> NaN, lon |-> NaN]

\* the rows of the table that have valid coordinates
ValidPois(t) ==
    {i \in DOMAIN t.rows :
        RowCoord(t, t.rows[i]).lat # NaN /\ RowCoord(t, t.rows[i]).lon # NaN}

\* the great-circle distance in metres between the target and a valid row
\* (both on the meridian of longitude 0)
MetresTo(t, i) == Abs(RowCoord(t, t.rows[i]).lat - imovel.lat) * GRID_M

Loaded == pois # NoPois

\* C6: for every category and every distance and count the query gives,
\* an undefined distance included, add_poi_scores and calcular_scores
\* compute the same score, from the same constants and the same columns.
C6_SameScoreInBothPaths ==
    (scores.status = "ok" /\ scored.ran) =>
        /\ DOMAIN scores.val = {CATEGORIES[n].score : n \in DOMAIN CATEGORIES}
        /\ \A n \in DOMAIN CATEGORIES :
              scores.val[CATEGORIES[n].score] = scored.table[1][CATEGORIES[n].score]

\* both paths scored a category without valid POI (undefined distance) and
\* a category with one
C6_Witness ==
    /\ scores.status = "ok" /\ scored.ran
    /\ \E n, m \in DOMAIN CATEGORIES :
          /\ poi_features.val[CATEGORIES[n].dist] = NaN
          /\ poi_features.val[CATEGORIES[m].dist] # NaN
          /\ poi_features.val[CATEGORIES[m].qtd] > 0
          /\ scores.val[CATEGORIES[m].score] # NaN
          /\ scores.val[CATEGORIES[m].score] = scored.table[1][CATEGORIES[m].score]

\* C7: a category without a POI of valid coordinates has the score 0, in
\* calcular_scores and in add_poi_scores; the undefined distance is not
\* propagated into the score.
C7_EmptyCategoryScoresZero ==
    Loaded =>
        \A n \in DOMAIN CATEGORIES :
            ValidPois(pois[CATEGORIES[n].table]) = {} =>
                /\ scores.status = "ok" => scores.val[CATEGORIES[n].score] = 0
                /\ scored.ran => scored.table[1][CATEGORIES[n].score] = 0

\* C8: for a category without a POI of valid coordinates,
\* calcular_poi_features raises no error, returns an undefined distance and
\* the count 0 for it, and computes the features of every other category.
C8_EmptyCategoryFeatures ==
    (Loaded /\ poi_features.status # "none") =>
        \A n \in DOMAIN CATEGORIES :
            ValidPois(pois[CATEGORIES[n].table]) = {} =>
                /\ poi_features.status = "ok"
                /\ poi_features.val[CATEGORIES[n].dist] = NaN
                /\ poi_features.val[CATEGORIES[n].qtd] = 0
                /\ \A m \in DOMAIN CATEGORIES :
                      {CATEGORIES[m].dist, CATEGORIES[m].qtd}
                          \subseteq DOMAIN poi_features.val

\* C9: the count of a category is the number of its valid POIs whose
\* great-circle distance to the target is at most the radius of the
\* category, the boundary included.
C9_CountWithinRadius ==
    poi_features.status = "ok" =>
        \A n \in DOMAIN CATEGORIES :
            LET t == pois[CATEGORIES[n].table]
            IN  poi_features.val[CATEGORIES[n].qtd] =
                    Cardinality({i \in ValidPois(t) :
                                    MetresTo(t, i) <= CATEGORIES[n].radius})

\* a category with a POI on its radius, counted, and another beyond it
C9_Witness ==
    /\ poi_features.status = "ok"
    /\ \E n \in DOMAIN CATEGORIES :
          LET t == pois[CATEGORIES[n].table]
          IN  /\ \E i \in ValidPois(t) : MetresTo(t, i) = CATEGORIES[n].radius
              /\ \E i \in ValidPois(t) : MetresTo(t, i) > CATEGORIES[n].radius
              /\ poi_features.val[CATEGORIES[n].qtd] = 1

\* C10: for a category with at least one valid POI, the nearest distance
\* is the least great-circle distance in metres from the target to a valid
\* POI of the category, and it is not negative.
C10_NearestIsMinimum ==
    poi_features.status = "ok" =>
        \A n \in DOMAIN CATEGORIES :
            LET t == pois[CATEGORIES[n].table]
                d == poi_features.val[CATEGORIES[n].dist]
            IN  ValidPois(t) # {} =>
                    /\ d # NaN /\ d >= 0
                    /\ \E i \in ValidPois(t) : MetresTo(t, i) = d
                    /\ \A i \in ValidPois(t) : MetresTo(t, i) >= d

\* a category with two valid POIs at different distances and a row without
\* coordinates or not: the nearer one, not at the target, is reported
C10_Witness ==
    /\ poi_features.status = "ok"
    /\ \E n \in DOMAIN CATEGORIES :
          LET t == pois[CATEGORIES[n].table]
              d == poi_features.val[CATEGORIES[n].dist]
          IN  /\ \E i, j \in ValidPois(t) :
                    i < j /\ MetresTo(t, i) > MetresTo(t, j) /\ MetresTo(t, j) = d
              /\ d > 0

\* the feature keys calcular_scores reads
ScoreInputs ==
    {APP_SCORES[i].dist : i \in DOMAIN APP_SCORES}
    \cup {APP_SCORES[i].qtd : i \in DOMAIN APP_SCORES}

Malformed(t) ==
    {i \in DOMAIN t.rows :
        /\ ~({"lat", "lon"} \subseteq t.columns)
        /\ (IF "geometry_std" \in t.columns THEN t.rows[i]["geometry_std"]
            ELSE t.rows[i]["geometry"]).type # "Point"}

\* the least distance in metres from the target to a valid row, nan
\* without a valid row
MinMetres(t) ==
    IF ValidPois(t) = {} THEN NaN
    ELSE LET D == {MetresTo(t, i) : i \in ValidPois(t)}
         IN  CHOOSE d \in D : \A e \in D : d <= e

\* C12: a geometry that does not parse never makes the call raise: the
\* call raises only on a table without rows; the row of the malformed
\* geometry is left out of the index of its category, the valid rows of
\* the category are indexed, and the features of every category are
\* computed.
C12_MalformedGeometrySkipped ==
    (Loaded /\ poi_features.status # "none") =>
        /\ poi_features.status = "KeyError" =>
              LET last == poi_features.queried[Len(poi_features.queried)]
              IN  Len(pois[last.table].rows) = 0
        /\ poi_features.status = "ok" =>
              \A n \in DOMAIN CATEGORIES :
                  LET t == pois[CATEGORIES[n].table]
                  IN  Malformed(t) # {} =>
                        /\ poi_features.val[CATEGORIES[n].qtd] =
                              Cardinality({i \in ValidPois(t) :
                                  MetresTo(t, i) <= CATEGORIES[n].radius})
                        /\ poi_features.val[CATEGORIES[n].dist] = MinMetres(t)
                        /\ DOMAIN poi_features.val = ScoreInputs

\* a category with a malformed row and a valid row in its radius: the
\* call returned, the valid row alone was counted
C12_Witness ==
    /\ poi_features.status = "ok"
    /\ \E n \in DOMAIN CATEGORIES :
          LET t == pois[CATEGORIES[n].table]
          IN  /\ Malformed(t) # {} /\ ValidPois(t) # {}
              /\ Len(t.rows) = 2
              /\ poi_features.val[CATEGORIES[n].qtd] = 1
              /\ poi_features.val[CATEGORIES[n].dist] = MinMetres(t)
              /\ poi_features.val[CATEGORIES[n].dist] # NaN

(***************************************************************************)
(* Claims on the submit handlers (SpecApp)                                 *)
(***************************************************************************)
\* the step is a run of the handler of app2.py that called the geocoder
\* and the geocoder did not resolve the address or failed
GeocodingFailed ==
    /\ form'.n = form.n + 1
    /\ form'.app = "app2"
    /\ form'.rua # "" /\ form'.bairro # ""
    /\ geo'.status \in {"nao_encontrado", "erro"}

\* C19: when the geocoding does not resolve the address or the service
\* fails, the request fails fast with the reason reported: no coordinate
\* is substituted, and no POI query, score calculation, prediction call
\* or database save happens for the request.
C19_GeocodeFailFast ==
    [][GeocodingFailed =>
          /\ geo'.lat = None /\ geo'.lon = None
          /\ imovel' = imovel
          /\ poi_features' = poi_features
          /\ scores' = scores
          /\ request' = request /\ response' = response /\ result' = result
          /\ saved' = saved
          /\ trace' = <<"geocode_endereco", "st.error", "st.stop">>]_vars

\* a second submit whose address was not found, after a first submit that
\* was predicted and saved: nothing was added
C19_Witness ==
    /\ form.app = "app2" /\ form.n = 2
    /\ geo.status = "nao_encontrado"
    /\ trace = <<"geocode_endereco", "st.error", "st.stop">>
    /\ Len(saved) = 1
    /\ response.status = 200

\* the keys salvar_predicao reads from the payload
SinkKeys == {"area_m2", "bairro", "banheiros", "quartos", "vagas_garagem",
             "score_escola_privada", "score_escola_publica", "score_farmacia",
             "score_hospitais", "score_mercado", "score_parque",
             "score_seguranca", "cidade"}

\* C20: every record handed to the prediction sink holds the input
\* payload, the predicted price and a model identity and a version that
\* are both present, in app.py and in app2.py; a record is saved only
\* after the prediction call succeeded, at most once per request.
C20_SinkRecordComplete ==
    /\ Len(saved) <= form.n
    /\ \A i \in DOMAIN saved :
          /\ SinkKeys \subseteq Range(saved[i].dados.keys)
          /\ saved[i].preco > 0
          /\ saved[i].modelo # NoneText
          /\ saved[i].versao # NoneText
    /\ Cardinality({i \in DOMAIN trace : trace[i] = "salvar_predicao"}) <= 1
    /\ (\E i \in DOMAIN trace : trace[i] = "salvar_predicao") =>
          /\ response.status = 200
          /\ saved[Len(saved)].dados = request
          /\ saved[Len(saved)].preco = response.preco_estimado

(***************************************************************************)
(* SpecReload: sessions query the POIs that st.cache_data holds while the  *)
(* cache is cleared and carregar_pois reads the files again                *)
(***************************************************************************)
MaxSessions == 2    \* script runs that may be under way at the same time

\* the order carregar_pois reads the csv files in
READ_ORDER == <<"escolas", "hospitais", "parques", "farmacia", "mercados", "policia">>

\* the contents the files on disk may have: the default tables, and
\* another hospitais.csv (a row without a valid geometry) with another
\* escolas.csv (a row without latitude)
DiskVersions ==
    {[f \in CSV_FILES |-> IF f = "escolas" THEN DefaultEscolas ELSE DefaultTable],
     [f \in CSV_FILES |->
        IF f = "escolas"
        THEN Table({"lat", "lon", "tipo_escola"},
                   << [lat |-> 4, lon |-> 0, tipo_escola |-> "privada"],
                      [lat |-> NaN, lon |-> 0, tipo_escola |-> "publica"],
                      [lat |-> 6, lon |-> 0, tipo_escola |-> "publica"] >>)
        ELSE IF f = "hospitais"
        THEN Table({"geometry"}, << [geometry |-> InvalidWkt],
                                    [geometry |-> Point(0, 10)] >>)
        ELSE DefaultTable]}

\* the dict a call of carregar_pois would return from the files it has read
\* so far: the keys whose file was read
PoisOfRead(read) ==
    [k \in {c \in {"escolas_publicas", "escolas_privadas", "hospitais", "parques",
                   "farmacia", "mercado", "policia"} :
               (IF c \in {"escolas_publicas", "escolas_privadas"} THEN "escolas"
                ELSE IF c = "mercado" THEN "mercados" ELSE c) \in DOMAIN read} |->
        CASE k = "escolas_publicas" -> OfTipo(read["escolas"], "publica")
          [] k = "escolas_privadas" -> OfTipo(read["escolas"], "privada")
          [] k = "mercado" -> read["mercados"]
          [] OTHER -> read[k]]

\* the cache entry while carregar_pois runs, were the tables stored as read
CacheStoredAsRead(entry, read) == PoisOfRead(read)

\* the cache entry while carregar_pois runs: the tables read are locals of
\* the call, the entry is written when the call returns
CacheWhileReading(entry, read) == entry

\* a script run that has not begun
NoSession == [pc |-> "idle", pois |-> NoPois, turn |-> 0, feats |-> <<>>,
              trees |-> <<>>]

\* the target of the session: each session has its own
TargetOf(s) == [lat |-> s % MaxStep, lon |-> 0]

InitReload ==
    /\ disk \in DiskVersions
    /\ cache = NoPois
    /\ loader = NoLoader
    /\ sessions = [s \in 1 .. MaxSessions |-> NoSession]
    /\ LifeIdle
    /\ LoadIdle
    /\ ScraperIdle
    /\ PredIdle
    /\ TrainIdle
    /\ PoiIdle
    /\ AppIdle

\* a call of carregar_pois misses the cache: the function body begins
LoadStart ==
    /\ cache = NoPois
    /\ loader.state = "idle"
    /\ loader' = [state |-> "reading", read |-> <<>>]
    /\ UNCHANGED <<disk, cache, sessions>>
    /\ UNCHANGED <<predVars, trainVars, poiVars, classVars, appVars, notReload>>

\* pd.read_csv of the next file
LoadRead ==
    /\ loader.state = "reading"
    /\ Len(loader.read) < Len(READ_ORDER)
    /\ LET f == READ_ORDER[Len(loader.read) + 1]
           read == Append(loader.read, disk[f])
       IN  /\ loader' = [loader EXCEPT !.read = read]
           /\ cache' = CacheWhileReading(cache,
                           [g \in {READ_ORDER[i] : i \in 1 .. Len(read)} |->
                               read[CHOOSE i \in 1 .. Len(read) : READ_ORDER[i] = g]])
    /\ UNCHANGED <<disk, sessions>>
    /\ UNCHANGED <<predVars, trainVars, poiVars, classVars, appVars, notReload>>

\* carregar_pois returns its dict, st.cache_data stores it
LoadReturn ==
    /\ loader.state = "reading"
    /\ Len(loader.read) = Len(READ_ORDER)
    /\ cache' = carregar_pois([g \in CSV_FILES |->
                    loader.read[CHOOSE i \in 1 .. Len(READ_ORDER) : READ_ORDER[i] = g]])
    /\ loader' = NoLoader
    /\ UNCHANGED <<disk, sessions>>
    /\ UNCHANGED <<predVars, trainVars, poiVars, classVars, appVars, notReload>>

\* the reload event: the files changed and the cache is cleared
ClearCache ==
    /\ cache # NoPois
    /\ loader.state = "idle"
    /\ cache' = NoPois
    /\ disk' \in DiskVersions \ {disk}
    /\ UNCHANGED <<loader, sessions>>
    /\ UNCHANGED <<predVars, trainVars, poiVars, classVars, appVars, notReload>>

\* a script run begins: pois = carregar_pois() hits the cache, the submit
\* handler calls calcular_poi_features(lat, lon, pois)
SessionRun(s) ==
    /\ sessions[s].pc # "querying"
    /\ cache # NoPois
    /\ sessions' = [sessions EXCEPT ![s] =
                       [pc |-> "querying", pois |-> cache, turn |-> 0,
                        feats |-> <<>>, trees |-> <<>>]]
    /\ UNCHANGED <<disk, cache, loader>>
    /\ UNCHANGED <<predVars, trainVars, poiVars, classVars, appVars, notReload>>

\* the coordinates the BallTree of a turn is built from
TreeData(tables, cfg) ==
    LET df_poi == Dropna(WithCoordinates(tables[PoiKey(cfg.name)]))
    IN  [i \in DOMAIN df_poi.rows |->
            RadiansPoint(df_poi.rows[i]["lat"], df_poi.rows[i]["lon"])]

\* one turn of the loop of calcular_poi_features in session s; a key that
\* is not in pois ends the call with KeyError
SessionQuery(s) ==
    /\ sessions[s].pc = "querying"
    /\ sessions[s].turn < Len(CONFIGS)
    /\ LET me == sessions[s]
           cfg == CONFIGS[me.turn + 1]
       IN  sessions' = [sessions EXCEPT ![s] =
               IF PoiKey(cfg.name) \notin DOMAIN me.pois
               THEN [me EXCEPT !.pc = "KeyError"]
               ELSE [me EXCEPT
                       !.turn = me.turn + 1,
                       !.feats = CategoryFeatures(me.feats, cfg, TargetOf(s), me.pois),
                       !.trees = Append(me.trees, TreeData(me.pois, cfg))]]
    /\ UNCHANGED <<disk, cache, loader>>
    /\ UNCHANGED <<predVars, trainVars, poiVars, classVars, appVars, notReload>>

\* calcular_poi_features returns in session s
SessionReturn(s) ==
    /\ sessions[s].pc = "querying"
    /\ sessions[s].turn = Len(CONFIGS)
    /\ sessions' = [sessions EXCEPT ![s].pc = "returned"]
    /\ UNCHANGED <<disk, cache, loader>>
    /\ UNCHANGED <<predVars, trainVars, poiVars, classVars, appVars, notReload>>

NextReload ==
    \/ LoadStart
    \/ LoadRead
    \/ LoadReturn
    \/ ClearCache
    \/ \E s \in 1 .. MaxSessions : SessionRun(s)
    \/ \E s \in 1 .. MaxSessions : SessionQuery(s)
    \/ \E s \in 1 .. MaxSessions : SessionReturn(s)

SpecReload == InitReload /\ [][NextReload]_vars

\* the coordinates, in radians, of the rows of a table that have both
RECURSIVE ValidCoordsFrom(_, _)
ValidCoordsFrom(t, n) ==
    IF n = 0 THEN <<>>
    ELSE LET c == RowCoord(t, t.rows[n])
         IN  IF c.lat # NaN /\ c.lon # NaN
             THEN Append(ValidCoordsFrom(t, n - 1), RadiansPoint(c.lat, c.lon))
             ELSE ValidCoordsFrom(t, n - 1)
ValidCoords(t) == ValidCoordsFrom(t, Len(t.rows))

\* the dicts carregar_pois returns from one state of the files
CompleteLoads == {carregar_pois(files) : files \in DiskVersions}

\* C21: queries that run while the cache is cleared and loaded again never
\* see a partly loaded POI set.  The cache holds nothing or the complete
\* dict of one state of the files; the pois of every script run is such a
\* complete dict all through its query, no call ends on a table that is
\* not there, and the index of every turn is built from all the rows of
\* its category that have coordinates.
C21_NoPartialIndex ==
    /\ cache \in {NoPois} \cup CompleteLoads
    /\ \A s \in DOMAIN sessions :
          sessions[s].pc # "idle" =>
              /\ sessions[s].pc # "KeyError"
              /\ sessions[s].pois \in CompleteLoads
              /\ \A k \in 1 .. sessions[s].turn :
                    sessions[s].trees[k] =
                        ValidCoords(sessions[s].pois[CATEGORIES[k].table])

\* a query is half way through its categories on the POIs of one state of
\* the files while carregar_pois is half way through reading another
C21_Witness ==
    /\ loader.state = "reading"
    /\ Len(loader.read) \in 1 .. (Len(READ_ORDER) - 1)
    /\ \E s \in DOMAIN sessions :
          /\ sessions[s].pc = "querying"
          /\ sessions[s].turn \in 3 .. (Len(CONFIGS) - 1)
          /\ sessions[s].pois # carregar_pois(disk)
          /\ Len(sessions[s].trees[3]) < Len(sessions[s].pois["hospitais"].rows)

(***************************************************************************)
(* SpecScore: the scores of one row of distances and counts, computed by   *)
(* calcular_scores and by add_poi_scores                                   *)
(***************************************************************************)
MaxDistStep == 80   \* distances 0 .. MaxDistStep * DIST_STEP_M metres
MaxQtd == 3         \* counts 0 .. MaxQtd
DIST_STEP_M == 150  \* metres between two distances of the rows

Distances == {k * DIST_STEP_M : k \in 0 .. MaxDistStep}

\* the row of distances and counts: the category that varies has the
\* distance d and the count q, the others are 300 m away with one POI
ScoreRow(focus, d, q) ==
    [k \in ScoreInputs |->
        IF k = APP_SCORES[focus].dist THEN d
        ELSE IF k = APP_SCORES[focus].qtd THEN q
        ELSE IF \E i \in DOMAIN APP_SCORES : APP_SCORES[i].dist = k THEN 300
        ELSE 1]

InitScore ==
    /\ pois = NoPois
    /\ imovel = [lat |-> 0, lon |-> 0]
    /\ \E focus \in DOMAIN APP_SCORES, d \in Distances, q \in 0 .. MaxQtd :
          poi_features = [status |-> "ok", val |-> ScoreRow(focus, d, q),
                          queried |-> <<>>]
    /\ scores = NoScores
    /\ scored = NotRun
    /\ PredIdle
    /\ TrainIdle
    /\ AppIdle
    /\ RestIdle

NextScore == CalcularScores \/ AddPoiScores

SpecScore == InitScore /\ [][NextScore]_vars

\* the scores both functions gave for category i of the row queried, as
\* pairs of the score and the part of it the exponential contributes
ScoresOf(i) ==
    {[score |-> v, term |-> v - APP_SCORES[i].c * poi_features.val[APP_SCORES[i].qtd] * SCALE] :
        v \in (IF scores.status = "ok" THEN {scores.val[APP_SCORES[i].score]} ELSE {})
              \cup (IF scored.ran THEN {scored.table[1][TRAIN_SCORES[i].score]} ELSE {})}

\* the score of category i is monotone around the row queried: no distance
\* further away scores more, no larger count scores less
MonotoneAt(i) ==
    LET e == APP_SCORES[i]
        d == poi_features.val[e.dist]
        q == poi_features.val[e.qtd]
    IN  \A r \in ScoresOf(i) :
           /\ \A d2 \in Distances :
                 d <= d2 => ScoreFormula(e.w, d2, e.len, e.c, q) <= r.score
           /\ \A q2 \in 0 .. MaxQtd :
                 q <= q2 => r.score <= ScoreFormula(e.w, d, e.len, e.c, q2)

\* C22 as stated: the score of every category is non-increasing in the
\* distance and non-decreasing in the count, and for a distance >= 0 the
\* exponential term is in (0, weight]
C22_ScoreMonotoneOriginal ==
    \A i \in DOMAIN APP_SCORES :
        /\ MonotoneAt(i)
        /\ \A r \in ScoresOf(i) : 0 < r.term /\ r.term <= APP_SCORES[i].w * SCALE

\* C22: the score of every category is non-increasing in the distance with
\* the count fixed and non-decreasing in the count with the distance
\* fixed; for a distance >= 0 the exponential term is in [0, weight]: the
\* weight at distance 0, and 0 once np.exp underflows
C22_ScoreMonotone ==
    \A i \in DOMAIN APP_SCORES :
        /\ MonotoneAt(i)
        /\ \A r \in ScoresOf(i) :
              /\ 0 <= r.term /\ r.term <= APP_SCORES[i].w * SCALE
              /\ poi_features.val[APP_SCORES[i].dist] = 0
                    => r.term = APP_SCORES[i].w * SCALE

\* both functions scored a row whose nearest pharmacy is so far away that
\* the exponential is 0, with pharmacies counted
C22_Witness ==
    /\ scores.status = "ok"
    /\ scored.ran
    /\ poi_features.val["dist_farmacia_mais_proximo"] > 300
    /\ poi_features.val["qtd_farmacia_300m"] > 0
    /\ scores.val["score_farmacia"] = 2 * poi_features.val["qtd_farmacia_300m"] * SCALE
    /\ scored.table[1]["score_farmacia"] = scores.val["score_farmacia"]

(***************************************************************************)
(* SpecLife: the API starts with or without a model, serves GET /health    *)
(* and POST /predict, and shuts down                                       *)
(***************************************************************************)
MaxRequests == 3    \* requests served in one behaviour

\* health() with the status of a loaded model whatever _model is
health_AlwaysOk(m) ==
    [status |-> "ok", model_name |-> "RealEstatePriceModel", version |-> "1.0.0"]

\* health(): HealthOutput for the global _model
health_endpoint(m) ==
    [status |-> IF m = "loaded" THEN "ok" ELSE "no_model",
     model_name |-> "RealEstatePriceModel", version |-> "1.0.0"]

\* the bodies posted: the example, complete or with one field left out,
\* with an area the constraints accept or reject
LifeBodies ==
    {b \in ApiBodies :
        /\ Len(b.keys) >= Len(ApiKeys) - 1
        /\ DictGet(b, "vagas_garagem", 1) = 1}

InitLife ==
    /\ ApiIdle
    /\ ClassIdle
    /\ RestIdle
    /\ PredIdle
    /\ TrainIdle
    /\ PoiIdle

\* GET /health
Health ==
    /\ model # "unset"
    /\ Len(served) < MaxRequests
    /\ health' = health_endpoint(model)
    /\ served' = Append(served, "health")
    /\ UNCHANGED <<appVars, predVars, trainVars, poiVars, classVars, notLife>>

\* POST /predict
ServePredict ==
    /\ model # "unset"
    /\ Len(served) < MaxRequests
    /\ \E body \in LifeBodies : PostPredict(body)
    /\ served' = Append(served, "predict")
    /\ UNCHANGED <<model, form, geo, trace, saved, health>>
    /\ UNCHANGED <<trainVars, poiVars, classVars, notLife>>

\* lifespan after the yield: _model = None
Shutdown ==
    /\ model = "loaded"
    /\ model' = "None"
    /\ UNCHANGED <<request, response, form, geo, trace, saved>>
    /\ UNCHANGED <<predVars, trainVars, poiVars, classVars, restVars>>

NextLife == Lifespan \/ Health \/ ServePredict \/ Shutdown

SpecLife == InitLife /\ [][NextLife]_vars

\* a request was handled in this step
Handled == Len(served') = Len(served) + 1
LastServed == served'[Len(served')]

\* C23: the API serves requests after a failed load as after a load.  A
\* request never changes which model is loaded; while no model is loaded
\* (the load failed, or the API shut down) a POST /predict whose body
\* validates is answered 503 and predict is not called, and GET /health
\* says "no_model"; while a model is loaded GET /health says "ok".
C23_NoModelNoPredict ==
    [][Handled =>
          /\ model' = model
          /\ model # "unset"
          /\ (LastServed = "health") =>
                health'.status = IF model = "loaded" THEN "ok" ELSE "no_model"
          /\ (LastServed = "predict" /\ model # "loaded" /\ Validates(request')) =>
                /\ response'.status = 503
                /\ UNCHANGED predVars]_vars

\* after a health check that said "ok" the API shut down, and a body that
\* validates was answered 503 with predict never called
C23_Witness ==
    /\ model = "None"
    /\ health # NoHealth
    /\ health.status = "ok"
    /\ served = <<"health", "predict">>
    /\ Validates(request)
    /\ response.status = 503
    /\ result = NoResult

(***************************************************************************)
(* SpecLoad: load_model called with or without a path and a run id, on an  *)
(* MLflow store with or without the experiment and its runs                *)
(***************************************************************************)
MaxRuns == 2        \* runs of the experiment in the store

\* a str argument: not given (None), given empty, given
PathArgs == {NoneText, "", "mlruns/1/r9/artifacts/model"}
RunIdArgs == {NoneText, "", "r0"}

\* "if x:" on an argument that is None or a str
Truthy(x) == x # NoneText /\ x # ""

\* the runs of the experiment: their ids and start times
Runs == {[run_id |-> id, start_time |-> t] : id \in {"r1", "r2"}, t \in 1 .. MaxRuns}

\* the MLflow stores: without the experiment, or with it and its runs
Stores ==
    {[exists |-> FALSE, runs |-> <<>>]}
    \cup {[exists |-> TRUE, runs |-> r] : r \in SeqsUpTo(Runs, MaxRuns)}

\* mlflow.search_runs(order_by=["start_time DESC"], max_results=1): the
\* runs that may come first
SearchRunsFirst(runs) ==
    {runs[i].run_id : i \in {j \in DOMAIN runs :
                                \A k \in DOMAIN runs :
                                    runs[k].start_time <= runs[j].start_time}}

\* mlflow.sklearn.load_model(uri)
SklearnLoad(uri) == [status |-> "ok", uri |-> uri]
RunUri(run_id) == "runs:/" \o run_id \o "/model"

\* load_model with the run id looked at before the path
load_model_RunIdFirst(model_path, run_id, store) ==
    IF Truthy(run_id) THEN {SklearnLoad(RunUri(run_id))}
    ELSE IF Truthy(model_path) THEN {SklearnLoad(model_path)}
    ELSE IF ~store.exists THEN {[status |-> "RuntimeError"]}
    ELSE IF store.runs = <<>> THEN {[status |-> "RuntimeError"]}
    ELSE {SklearnLoad(RunUri(r)) : r \in SearchRunsFirst(store.runs)}

\* load_model(run_id=..., model_path=...): the outcomes it may have
load_model(model_path, run_id, store) ==
    IF Truthy(model_path) THEN {SklearnLoad(model_path)}
    ELSE IF Truthy(run_id) THEN {SklearnLoad(RunUri(run_id))}
    ELSE IF ~store.exists THEN {[status |-> "RuntimeError"]}
    ELSE IF store.runs = <<>> THEN {[status |-> "RuntimeError"]}
    ELSE {SklearnLoad(RunUri(r)) : r \in SearchRunsFirst(store.runs)}

InitLoad ==
    /\ \E p \in PathArgs, r \in RunIdArgs, st \in Stores :
          load_args = [model_path |-> p, run_id |-> r, store |-> st]
    /\ loaded = NoResult
    /\ ReloadIdle
    /\ LifeIdle
    /\ ScraperIdle
    /\ PredIdle
    /\ TrainIdle
    /\ PoiIdle
    /\ AppIdle

LoadModel ==
    /\ loaded = NoResult
    /\ loaded' \in load_model(load_args.model_path, load_args.run_id, load_args.store)
    /\ UNCHANGED load_args
    /\ UNCHANGED <<predVars, trainVars, poiVars, classVars, appVars, notLoad>>

NextLoad == LoadModel

SpecLoad == InitLoad /\ [][NextLoad]_vars

\* C24: load_model takes its source by priority.  A model_path that is
\* given (not None, not empty) is loaded whatever run_id is; else a run_id
\* that is given is loaded; else, when the experiment is missing or has no
\* run, RuntimeError is raised and nothing is loaded; else a run of the
\* experiment that no other run started after is loaded.
C24_LoadPriority ==
    loaded # NoResult =>
        LET a == load_args
        IN  IF Truthy(a.model_path)
            THEN loaded = [status |-> "ok", uri |-> a.model_path]
            ELSE IF Truthy(a.run_id)
            THEN loaded = [status |-> "ok", uri |-> "runs:/" \o a.run_id \o "/model"]
            ELSE IF ~a.store.exists \/ Len(a.store.runs) = 0
            THEN loaded = [status |-> "RuntimeError"]
            ELSE \E i \in DOMAIN a.store.runs :
                    /\ ~\E j \in DOMAIN a.store.runs :
                          a.store.runs[j].start_time > a.store.runs[i].start_time
                    /\ loaded = [status |-> "ok",
                                 uri |-> "runs:/" \o a.store.runs[i].run_id \o "/model"]

\* a path and a run id were both given and the path was loaded
C24_Witness ==
    /\ Truthy(load_args.model_path)
    /\ Truthy(load_args.run_id)
    /\ load_args.store.exists
    /\ Len(load_args.store.runs) = 2
    /\ loaded = [status |-> "ok", uri |-> load_args.model_path]

(***************************************************************************)
(* scraper_robusto.py and unir_arquivos.py                                 *)
(***************************************************************************)
MaxPages == 2       \* pages of the site that may show listings

DEFAULT_PAGES == 10     \* _detectar_total_paginas when it detects nothing
UNTIL_EMPTY == 999      \* num_paginas when it is not given nor detected

\* the links of the cards one page may show: no card, two listings, a
\* listing of the other page again with two cards that have no link
PageContents ==
    { <<>>, <<"a", "b">>, <<"b", NoneText, "c", NoneText>> }

\* a listing: the link of its card and the page it was on
Listing(link, pagina) == [link |-> link, pagina |-> pagina]

\* _extrair_dados_pagina on the page: one listing per card
ExtrairDadosPagina(pagina) ==
    IF pagina \in DOMAIN site
    THEN [i \in DOMAIN site[pagina] |-> Listing(site[pagina][i], pagina)]
    ELSE <<>>

\* the rows up to n that have the link of no row before them
RECURSIVE DropFrom(_, _)
DropFrom(rows, n) ==
    IF n = 0 THEN <<>>
    ELSE IF \E j \in 1 .. (n - 1) : rows[j].link = rows[n].link
         THEN DropFrom(rows, n - 1)
         ELSE Append(DropFrom(rows, n - 1), rows[n])

\* df.drop_duplicates(subset=["link"], keep="last")
drop_duplicates_KeepLast(rows) ==
    LET Rev(q) == [i \in 1 .. Len(q) |-> q[Len(q) + 1 - i]]
    IN  Rev(DropFrom(Rev(rows), Len(rows)))

\* df.drop_duplicates(subset=["link"], keep="first"); missing links are
\* equal to each other
drop_duplicates(rows) == DropFrom(rows, Len(rows))

\* the counter of empty pages, kept when a page has listings
ResetKept(n) == n

\* paginas_vazias_consecutivas = 0
ResetCounter(n) == 0

\* _criar_driver(): it returns the driver ("ok"), raises before Chrome
\* runs ("no_browser"), or raises in execute_script with Chrome running
\* ("script_error")
CriarDriverOutcomes == {"ok", "no_browser", "script_error"}

\* the caller's try block around driver = self._criar_driver(): the local
\* driver is bound when the call returned; a browser runs from the moment
\* webdriver.Chrome returned
AfterCriarDriver(o, next_pc) ==
    /\ drivers' = IF o = "no_browser" THEN drivers ELSE drivers + 1
    /\ scraper' = [scraper EXCEPT
                      !.driver = (o = "ok"),
                      !.imoveis_pagina = <<>>,
                      !.pc = IF o = "ok" THEN next_pc.load ELSE next_pc.finally]

\* finally: if driver: self._fechar_driver(driver)
FecharDriver == drivers' = IF scraper.driver THEN drivers - 1 ELSE drivers

\* scraping_completo(num_paginas, auto_detectar): which page count to use
Start ==
    /\ scraper.pc = "call"
    /\ scraper' = [scraper EXCEPT
                      !.pc = IF scraper.auto_detectar /\ scraper.num_paginas = None
                             THEN "detect" ELSE "loop",
                      !.num_paginas = IF scraper.num_paginas # None THEN @
                                      ELSE IF scraper.auto_detectar THEN @
                                      ELSE UNTIL_EMPTY]
    /\ UNCHANGED <<site, drivers, merged>>
    /\ UNCHANGED <<predVars, trainVars, poiVars, classVars, appVars, notScraper>>

\* _detectar_total_paginas: driver = self._criar_driver()
DetectCreate ==
    /\ scraper.pc = "detect"
    /\ \E o \in CriarDriverOutcomes :
          AfterCriarDriver(o, [load |-> "detect_load", finally |-> "detect_finally"])
    /\ UNCHANGED <<site, merged>>
    /\ UNCHANGED <<predVars, trainVars, poiVars, classVars, appVars, notScraper>>

\* _detectar_total_paginas: the page is loaded and searched for the total;
\* 10 when nothing is found or an exception is raised
DetectLoad ==
    /\ scraper.pc = "detect_load"
    /\ \E total \in (1 .. MaxPages) \cup {DEFAULT_PAGES} :
          scraper' = [scraper EXCEPT !.total = total, !.pc = "detect_finally"]
    /\ UNCHANGED <<site, drivers, merged>>
    /\ UNCHANGED <<predVars, trainVars, poiVars, classVars, appVars, notScraper>>

\* _detectar_total_paginas: finally, and the return into scraping_completo
DetectClose ==
    /\ scraper.pc = "detect_finally"
    /\ FecharDriver
    /\ scraper' = [scraper EXCEPT !.driver = FALSE, !.num_paginas = scraper.total,
                                  !.pc = "loop"]
    /\ UNCHANGED <<site, merged>>
    /\ UNCHANGED <<predVars, trainVars, poiVars, classVars, appVars, notScraper>>

\* for pagina in range(1, num_paginas + 1)
LoopNext ==
    /\ scraper.pc = "loop"
    /\ scraper' = IF scraper.pagina < scraper.num_paginas
                  THEN [scraper EXCEPT !.pagina = @ + 1, !.pc = "page"]
                  ELSE [scraper EXCEPT !.pc = "finish"]
    /\ UNCHANGED <<site, drivers, merged>>
    /\ UNCHANGED <<predVars, trainVars, poiVars, classVars, appVars, notScraper>>

\* scraping_pagina_individual: driver = self._criar_driver()
PageCreate ==
    /\ scraper.pc = "page"
    /\ \E o \in CriarDriverOutcomes :
          AfterCriarDriver(o, [load |-> "page_load", finally |-> "page_finally"])
    /\ UNCHANGED <<site, merged>>
    /\ UNCHANGED <<predVars, trainVars, poiVars, classVars, appVars, notScraper>>

\* scraping_pagina_individual: driver.get(url) ... _extrair_dados_pagina;
\* an exception leaves imoveis_pagina empty
PageLoad ==
    /\ scraper.pc = "page_load"
    /\ \E raised \in BOOLEAN :
          scraper' = [scraper EXCEPT
                         !.imoveis_pagina = IF raised THEN <<>>
                                            ELSE ExtrairDadosPagina(scraper.pagina),
                         !.pc = "page_finally"]
    /\ UNCHANGED <<site, drivers, merged>>
    /\ UNCHANGED <<predVars, trainVars, poiVars, classVars, appVars, notScraper>>

\* scraping_pagina_individual: finally, and return imoveis_pagina
PageClose ==
    /\ scraper.pc = "page_finally"
    /\ FecharDriver
    /\ scraper' = [scraper EXCEPT !.driver = FALSE, !.pc = "page_done"]
    /\ UNCHANGED <<site, merged>>
    /\ UNCHANGED <<predVars, trainVars, poiVars, classVars, appVars, notScraper>>

\* the body of the loop after the call: the counter of empty pages, the
\* break, self.imoveis.extend and the file of the page
PageDone ==
    /\ scraper.pc = "page_done"
    /\ LET got == scraper.imoveis_pagina
           vazias == IF Len(got) = 0 THEN scraper.paginas_vazias_consecutivas + 1
                     ELSE ResetCounter(scraper.paginas_vazias_consecutivas)
       IN  scraper' = [scraper EXCEPT
                          !.paginas_vazias_consecutivas = vazias,
                          !.visited = Append(@, [pagina |-> scraper.pagina,
                                                 found |-> Len(got)]),
                          !.imoveis = @ \o got,
                          !.files = IF Len(got) = 0 THEN @
                                    ELSE Append(@, [pagina |-> scraper.pagina,
                                                    rows |-> got]),
                          !.pc = IF Len(got) = 0 /\ vazias >= 2 THEN "finish"
                                 ELSE "loop"]
    /\ UNCHANGED <<site, drivers, merged>>
    /\ UNCHANGED <<predVars, trainVars, poiVars, classVars, appVars, notScraper>>

\* scraping_completo: the DataFrame of self.imoveis without duplicates
Finish ==
    /\ scraper.pc = "finish"
    /\ scraper' = [scraper EXCEPT !.df = drop_duplicates(scraper.imoveis),
                                  !.pc = "returned"]
    /\ UNCHANGED <<site, drivers, merged>>
    /\ UNCHANGED <<predVars, trainVars, poiVars, classVars, appVars, notScraper>>

\* pd.read_csv of a file _salvar_pagina_individual wrote: a missing link
\* is read as nan
ReadPageCsv(rows) ==
    [i \in DOMAIN rows |->
        [rows[i] EXCEPT !.link = IF @ = NoneText THEN NaNLabel ELSE @]]

\* the file of another city in the same directory, sorted after the files
\* of the city scraped
OTHER_CITY_FILE == << Listing("b", 1), Listing("z", 1) >>

RECURSIVE ConcatFiles(_, _, _)
\* pd.concat of the files read, in the sorted order of their names (page
\* numbers below 10 sort as numbers); the file that cannot be read is left
\* out
ConcatFiles(files, unreadable, n) ==
    IF n = 0 THEN <<>>
    ELSE ConcatFiles(files, unreadable, n - 1)
         \o (IF files[n].pagina = unreadable THEN <<>> ELSE ReadPageCsv(files[n].rows))

\* the two functions from the concatenation on
UnirArquivos(dfs) == [ran |-> TRUE, input |-> dfs, table |-> drop_duplicates(dfs)]

\* unir_arquivos_por_cidade(cidade, estado)
UnirArquivosPorCidade ==
    /\ scraper.pc = "returned"
    /\ ~merged.cidade.ran
    /\ \E unreadable \in 0 .. MaxPages :
          merged' = [merged EXCEPT !.cidade =
              UnirArquivos(ConcatFiles(scraper.files, unreadable, Len(scraper.files)))]
    /\ UNCHANGED <<site, scraper, drivers>>
    /\ UNCHANGED <<predVars, trainVars, poiVars, classVars, appVars, notScraper>>

\* unir_todos_arquivos()
UnirTodosArquivos ==
    /\ scraper.pc = "returned"
    /\ ~merged.todos.ran
    /\ \E unreadable \in 0 .. MaxPages :
          merged' = [merged EXCEPT !.todos =
              UnirArquivos(ConcatFiles(scraper.files, unreadable, Len(scraper.files))
                           \o OTHER_CITY_FILE)]
    /\ UNCHANGED <<site, scraper, drivers>>
    /\ UNCHANGED <<predVars, trainVars, poiVars, classVars, appVars, notScraper>>

(***************************************************************************)
(* SpecScraper: one call of scraping_completo on a site, then the files    *)
(* of its pages are united                                                 *)
(***************************************************************************)
InitScraper ==
    /\ site \in [1 .. MaxPages -> PageContents]
    /\ \E n \in {None, 1, MaxPages}, auto \in BOOLEAN :
          scraper = [pc |-> "call", num_paginas |-> n, auto_detectar |-> auto,
                     pagina |-> 0, paginas_vazias_consecutivas |-> 0,
                     imoveis |-> <<>>, imoveis_pagina |-> <<>>, driver |-> FALSE,
                     total |-> DEFAULT_PAGES, visited |-> <<>>, files |-> <<>>,
                     df |-> <<>>]
    /\ drivers = 0
    /\ merged = [cidade |-> NotRun, todos |-> NotRun]
    /\ ReloadIdle
    /\ LifeIdle
    /\ LoadIdle
    /\ PredIdle
    /\ TrainIdle
    /\ PoiIdle
    /\ AppIdle

NextScraper ==
    \/ Start
    \/ DetectCreate
    \/ DetectLoad
    \/ DetectClose
    \/ LoopNext
    \/ PageCreate
    \/ PageLoad
    \/ PageClose
    \/ PageDone
    \/ Finish
    \/ UnirArquivosPorCidade
    \/ UnirTodosArquivos

SpecScraper == InitScraper /\ [][NextScraper]_vars

\* the scheduler: a call that can take a step takes it
SpecScraperLive == SpecScraper /\ WF_vars(NextScraper)

\* C25: at most one browser is open at any moment, and none is open
\* outside the calls of scraping_pagina_individual and of
\* _detectar_total_paginas: each closes the browser it opened before it
\* returns, also when the page fails to load or to parse.
C25_DriverClosed ==
    /\ drivers <= 1
    /\ scraper.pc \in {"call", "loop", "page", "page_done", "finish", "returned"}
          => drivers = 0

\* the number of pages at the end of visited that yielded nothing
RECURSIVE TrailingEmpty(_, _)
TrailingEmpty(v, n) ==
    IF n = 0 THEN 0
    ELSE IF v[n].found = 0 THEN 1 + TrailingEmpty(v, n - 1) ELSE 0

\* the walk over the pages so far: pages 1, 2, ... in order and each once,
\* none beyond num_paginas, the counter counts the empty pages at the end,
\* nothing is visited after two empty pages in a row, and the walk ends
\* before num_paginas only on two empty pages in a row
WalkInOrder ==
    scraper.pc \notin {"call", "detect", "detect_load", "detect_finally"} =>
        LET v == scraper.visited
            over == scraper.pc \in {"finish", "returned"}
        IN  /\ \A i \in DOMAIN v : v[i].pagina = i
            /\ Len(v) <= scraper.num_paginas
            /\ scraper.pagina \in {Len(v), Len(v) + 1}
            /\ scraper.paginas_vazias_consecutivas = TrailingEmpty(v, Len(v))
            /\ \A i \in 2 .. Len(v) :
                  (v[i].found = 0 /\ v[i - 1].found = 0) => (i = Len(v) /\ over)
            /\ over => \/ Len(v) = scraper.num_paginas
                       \/ (Len(v) >= 2 /\ v[Len(v)].found = 0 /\ v[Len(v) - 1].found = 0)
            /\ \A i \in DOMAIN v :
                  v[i].found = 0 \/ v[i].found = Len(ExtrairDadosPagina(i))

\* C26: scraping_completo visits the pages 1 .. num_paginas in increasing
\* order, each at most once, and returns in the end; it stops before
\* num_paginas exactly on two pages in a row without listings (a page
\* that failed yields none), and every page with a listing sets the
\* counter of empty pages back to 0.
C26_WalkTerminates == []WalkInOrder /\ <>(scraper.pc = "returned")

\* the first page failed, the second had listings and set the counter
\* back, the two pages after it were empty and ended the walk early
C26_Witness ==
    /\ scraper.pc = "returned"
    /\ Len(scraper.visited) = 4
    /\ scraper.num_paginas > 4
    /\ scraper.visited[1].found = 0
    /\ scraper.visited[2].found > 0
    /\ scraper.paginas_vazias_consecutivas = 2

\* the links of a table, in row order
Links(rows) == [i \in DOMAIN rows |-> rows[i].link]

\* table holds each link of input once: its rows are the rows of input
\* that are the first with their link, in the order of input
FirstOccurrences(input, table) ==
    /\ \A i, j \in DOMAIN table : i # j => table[i].link # table[j].link
    /\ {input[i].link : i \in DOMAIN input} = {table[i].link : i \in DOMAIN table}
    /\ \A k \in DOMAIN table :
          \E i \in DOMAIN input :
              /\ input[i] = table[k]
              /\ \A j \in 1 .. (i - 1) : input[j].link # input[i].link
              /\ Cardinality({j \in 1 .. i :
                                \A h \in 1 .. (j - 1) : input[h].link # input[j].link}) = k

\* C27: the tables scraping_completo, unir_arquivos_por_cidade and
\* unir_todos_arquivos return have no two rows with the same link: of the
\* rows with one link the first in page order (file order) is kept, and
\* every link of the rows collected (of the files read) is in the table.
C27_NoDuplicateLinks ==
    /\ scraper.pc = "returned" => FirstOccurrences(scraper.imoveis, scraper.df)
    /\ merged.cidade.ran => FirstOccurrences(merged.cidade.input, merged.cidade.table)
    /\ merged.todos.ran => FirstOccurrences(merged.todos.input, merged.todos.table)

\* both pages were collected, the link "b" of page 2 was on page 1 before,
\* and all three tables are shorter than what went into them
C27_Witness ==
    /\ scraper.pc = "returned"
    /\ Len(scraper.files) = 2
    /\ merged.cidade.ran
    /\ merged.todos.ran
    /\ Len(scraper.df) < Len(scraper.imoveis)
    /\ Len(merged.cidade.table) < Len(merged.cidade.input)
    /\ Len(merged.todos.table) < Len(merged.todos.input)
    /\ \E i \in DOMAIN scraper.df :
          scraper.df[i] = Listing("b", 1)
    /\ Len(merged.todos.input) = Len(scraper.imoveis) + 2

(***************************************************************************)
(* Claims on the dict and the frame of predict                             *)
(***************************************************************************)
\* C28: predict changes the dict of its caller in one way at most: it
\* sets faixa_area (a new last key, or the value of the key) when the key
\* was absent or its value missing.  Every other key keeps its place and
\* value, no key of a feature the input lacks is added, and a call that
\* raises leaves the dict as it was.
C28_OnlyFaixaWritten ==
    result # NoResult =>
        /\ \A k \in Range(arg.keys) \ {"faixa_area"} :
              HasKey(data, k) /\ data.val[k] = arg.val[k]
        /\ Range(data.keys) \subseteq Range(arg.keys) \cup {"faixa_area"}
        /\ DOMAIN data.val = Range(data.keys)
        /\ data.keys = IF HasKey(arg, "faixa_area") THEN arg.keys
                       ELSE IF result.status = "ok" THEN Append(arg.keys, "faixa_area")
                       ELSE arg.keys
        /\ (HasKey(arg, "faixa_area") /\ arg.val["faixa_area"] # NaNLabel) => data = arg
        /\ data # arg => data.val["faixa_area"] \in Range(AREA_LABELS)

\* predict ran on a dict with an extra key, without quartos and without
\* faixa_area: the dict got faixa_area and nothing else
C28_Witness ==
    /\ result.status = "ok"
    /\ HasKey(arg, "cidade")
    /\ ~HasKey(arg, "quartos") /\ ~HasKey(arg, "faixa_area")
    /\ data.keys = Append(arg.keys, "faixa_area")
    /\ ~HasKey(data, "quartos")
    /\ df_input.row["quartos"] = NaN

\* C29: a faixa_area the input carries (not missing) goes to the pipeline
\* as it is and is not derived again from area_m2: the feature row has
\* the caller's label, whether or not it is the bucket of the area.
C29_FaixaPassedThrough ==
    (result.status = "ok" /\ HasKey(arg, "faixa_area")
        /\ arg.val["faixa_area"] # NaNLabel) =>
        /\ df_input.row["faixa_area"] = arg.val["faixa_area"]
        /\ data.val["faixa_area"] = arg.val["faixa_area"]
        /\ (df_input.row["faixa_area"] = FaixaOf(AreaRead(arg)))
              <=> (arg.val["faixa_area"] = FaixaOf(AreaRead(arg)))

\* the caller said "50-80" for an area of 120: the row says "50-80", the
\* bucket of 120 is "80-120"
C29_Witness ==
    /\ result.status = "ok"
    /\ HasKey(arg, "area_m2") /\ arg.val["area_m2"] = 120
    /\ HasKey(arg, "faixa_area") /\ arg.val["faixa_area"] = "50-80"
    /\ df_input.row["faixa_area"] = "50-80"
    /\ df_input.row["area_m2"] = 120
    /\ FaixaOf(120) = "80-120"

(***************************************************************************)
(* Claims on the listings without a price (SpecPrepare)                    *)
(***************************************************************************)
\* C30: prepare_dataset drops no listing for its missing price.  The rows
\* returned are the rows of an allowed type, in their order; where the
\* price is missing, preco is the median of preco and log_preco the median
\* of log_preco over the rows of an allowed type (taken before the
\* imputation), and both are numbers when one of these rows has a price.
C30_MissingPriceKept ==
    out.ran =>
        \A allowed \in {Allowed}, post \in {PostFilter} :
            /\ Len(out.table) = Len(allowed)
            /\ \A m \in {[preco |-> Median(post, "preco"),
                          log_preco |-> Median(post, "log_preco")]} :
                  \A i \in DOMAIN allowed :
                      /\ out.table[i]["index"] = allowed[i]["index"]
                      /\ allowed[i]["preco"] = NaN =>
                            /\ out.table[i]["preco"] = m.preco
                            /\ out.table[i]["log_preco"] = m.log_preco
                            /\ (\E j \in DOMAIN allowed : allowed[j]["preco"] # NaN)
                                  => /\ out.table[i]["preco"] # NaN
                                     /\ out.table[i]["log_preco"] # NaN

\* a listing without a price is returned beside two listings with a price:
\* it has a price and a target, those of neither alone when they differ
C30_Witness ==
    /\ out.ran
    /\ Len(out.table) = 3
    /\ \E i, j, k \in DOMAIN out.table :
          /\ RawRow(out.table[i]["index"])["preco"] = NaN
          /\ RawRow(out.table[j]["index"])["preco"] = 1
          /\ RawRow(out.table[k]["index"])["preco"] > 1
          /\ out.table[i]["preco"] # NaN
          /\ out.table[i]["log_preco"] # NaN
          /\ out.table[i]["log_preco"] = (out.table[j]["log_preco"] + out.table[k]["log_preco"]) \div 2
====
